---- MODULE Spec2Model ----
(***************************************************************************)
(* Heating / Cooling Degree Days: the integrator over temperature readings *)
(* and the forecast blender, the reading of the recorder's history and the *)
(* update coordinator with its daily values, store and repair issue.       *)
(*                                                                         *)
(* Numbers.  Timestamps are whole seconds counted from a reference         *)
(* midnight.  Temperatures are whole degrees.  The Python code works on    *)
(* floats; here every intermediate value is an exact rational, kept as an  *)
(* integer numerator over a fixed denominator, and round(x, 1) is          *)
(* round-half-to-even on the exact value.  A returned degree-day value is  *)
(* kept in tenths of a degree-day (80 stands for 8.0).  A state string of   *)
(* the recorder is the sequence of its characters and the float read from  *)
(* it is kept in tenths of a degree.  A date is a number of days since     *)
(* 2024-01-01; its ISO format is the triple <<year, month, day>>.          *)
(***************************************************************************)
EXTENDS Integers, Sequences, FiniteSets, TLC

\* ------------------------------------------------------------------ bounds

\* Longest readings list handed to the integrator.
MaxLen == 3

\* Longest readings list whose variations (a reading changed, a reading
\* appended) are compared with it.
MaxVariedLen == 2

\* Longest readings list and longest forecast list handed to the blender.
MaxBlendLen == 2
MaxForecast == 2

\* Longest list of states the recorder returns for the entity.
MaxHistory == 2

\* How many days the clock moves on past the first update's day.
MaxDays == 1

\* ------------------------------------------------------- program constants

\* MIN_INTERVAL_DAYS = 0.0007, as the fraction 7 / 10000.
MIN_INTERVAL_DAYS_NUM == 7
MIN_INTERVAL_DAYS_DEN == 10000

\* _cleanup_old_data(60): the days of daily values kept.
DaysToKeep == 60

\* 24 * 3600, the divisor that turns seconds into days.
SecondsPerDay == 24 * 3600

\* ------------------------------------------------------------ input values

\* Timestamps of readings: midnight, 30 s and 60 s later, noon, next midnight.
ReadingTimes == {0, 30, 60, 43200, 86400}

\* Temperatures: a hard frost, the usual base itself, a warm day.
ReadingTemps == {-10, 18, 25}

\* Base temperatures: 18 (Celsius) and 65 (Fahrenheit).
BaseTemps == {18, 65}

\* A TemperatureReading is the pair <<timestamp, temperature>>.
TemperatureReading == ReadingTimes \X ReadingTemps

BoundedSeq(S, n) == UNION {[1..k -> S] : k \in 0..n}

\* Readings handed to the blender: taken at midnight or at noon.
BlendReading == {0, 43200} \X {-10, 25}

\* The blender is called at noon for the rest of the day:
\* actual_end_time = noon, forecast_end_time = next midnight.
NoonTime == 12 * 3600
MidnightTime == 24 * 3600

\* An optional number: <<>> is None, <<v>> is the number v.
None == <<>>
Some(v) == <<v>>

\* What forecast.get("datetime") or forecast.get("dt") yields:
\*   "none"         no such key (or a falsy value)
\*   "datetime"     a datetime object, t seconds after the reference midnight
\*   "str_ok"       a string that parse_datetime turns into that datetime
\*   "str_garbage"  a string that is no timestamp: parse_datetime returns None
\*   "str_invalid"  a timestamp-shaped string with impossible field values:
\*                  parse_datetime raises ValueError
DtNone == [kind |-> "none", t |-> 0]
DtAt(t) == [kind |-> "datetime", t |-> t]
DtStr(t) == [kind |-> "str_ok", t |-> t]
DtGarbage == [kind |-> "str_garbage", t |-> 0]
DtInvalid == [kind |-> "str_invalid", t |-> 0]

ForecastEntryOf(dt, temperature, templow) ==
    [dt |-> dt, temperature |-> temperature, templow |-> templow]

\* Forecast entries handed to the blender.
BlendForecastEntry ==
    { ForecastEntryOf(DtAt(NoonTime), Some(-10), None),       \* hourly, at window start
      ForecastEntryOf(DtAt(64800), Some(25), Some(18)),       \* daily high / low
      ForecastEntryOf(DtAt(64800), Some(-10), Some(18)),
      ForecastEntryOf(DtStr(64800), Some(25), None),          \* timestamp as a string
      ForecastEntryOf(DtAt(0), Some(-10), None),              \* before the window
      ForecastEntryOf(DtAt(MidnightTime), Some(25), None),    \* at the window end
      ForecastEntryOf(DtNone, Some(-10), None),               \* no timestamp
      ForecastEntryOf(DtAt(64800), None, Some(18)),           \* no primary temperature
      ForecastEntryOf(DtGarbage, Some(-10), None),            \* unparseable strings
      ForecastEntryOf(DtInvalid, Some(25), None) }

\* Forecast entries handed to the forecast functions on their own: every
\* kind of timestamp (before the window, at its start, inside it, at its end,
\* as a string, missing, unparseable), with and without the temperatures.
ForecastTimestamp ==
    {DtNone, DtAt(0), DtAt(NoonTime), DtAt(64800), DtAt(MidnightTime),
     DtStr(64800), DtGarbage, DtInvalid}

ForecastEntry ==
    {ForecastEntryOf(dt, temperature, templow) :
        dt \in ForecastTimestamp,
        temperature \in {None, Some(-10), Some(25)},
        templow \in {None, Some(18)}}

\* A state value is a string, kept as the sequence of its characters.
Chars(word) ==
    CASE word = "unknown" -> <<"u", "n", "k", "n", "o", "w", "n">>
      [] word = "unavailable" -> <<"u", "n", "a", "v", "a", "i", "l", "a", "b", "l", "e">>

DecimalDigit == {"0", "1", "2", "3", "4", "5", "6", "7", "8", "9"}

\* U+00B2, a character str.isdigit() accepts and float() rejects.
SuperscriptTwo == "SUPERSCRIPT TWO"

\* The values a recorded state can hold: "18", "5", "21.5", "5.", ".5",
\* "-5", "-2.5", "", ".", "1.2.3", "abc", U+00B2, "unknown", "unavailable".
StateValue ==
    {<<"1", "8">>, <<"5">>, <<"2", "1", ".", "5">>, <<"5", ".">>, <<".", "5">>,
     <<"-", "5">>, <<"-", "2", ".", "5">>,
     <<>>, <<".">>, <<"1", ".", "2", ".", "3">>, <<"a", "b", "c">>,
     <<SuperscriptTwo>>, Chars("unknown"), Chars("unavailable")}

\* A recorded state: its last_updated time and its state string.
HistoryState == [last_updated : {0, NoonTime}, state : StateValue]

\* What get_significant_states can answer for the entity: an exception, an
\* empty mapping, a mapping without the entity, or the entity's states.
HistoryLookup ==
    {[kind |-> k, states |-> <<>>] : k \in {"raises", "empty", "other_entity"}}
    \cup {[kind |-> "found", states |-> s] : s \in BoundedSeq(HistoryState, MaxHistory)}

\* ---------------------------------------------------------------- calendar

\* A date is its number of days since 2024-01-01, a Monday.
MonthLengths == <<31, 29, 31, 30, 31, 30, 31, 31, 30, 31, 30, 31>>

\* The date of the first day of month m of 2024.
RECURSIVE DaysBefore(_)
DaysBefore(m) == IF m = 1 THEN 0 ELSE DaysBefore(m - 1) + MonthLengths[m - 1]

MonthStarts == [m \in 1..12 |-> DaysBefore(m)]

MonthStart(m) == MonthStarts[m]

\* date.month
Months ==
    [d \in 0..365 |->
        CHOOSE m \in 1..12 : MonthStarts[m] <= d /\ d < MonthStarts[m] + MonthLengths[m]]

MonthOf(d) == Months[d]

\* date.weekday(): Monday is 0.
Weekday(d) == d % 7

\* date.isoformat() as <<year, month, day>> and date.fromisoformat().
isoformat(d) == <<2024, MonthOf(d), d - MonthStart(MonthOf(d)) + 1>>
fromisoformat(s) == MonthStart(s[2]) + s[3] - 1

\* The day the clock shows at the first update: 2024-03-11, a Monday.
FirstDay == 31 + 29 + 10

\* ------------------------------------------------------ coordinator inputs

\* A mapping from dates to values with no entry.
EmptyMap == [d \in {} |-> 0]

\* The last second of a day, when an update can run into the next day.
LastSecond == MidnightTime - 1

\* What the recorder answers for the temperature entity during an update:
\* nothing, or half a day out of time order, cold at noon ("5") and warm at
\* midnight ("25"), with an 'unknown' state in between.
NoHistory == [kind |-> "empty", states |-> <<>>]

CoordinatorLookup ==
    {NoHistory,
     [kind |-> "found",
      states |-> <<[last_updated |-> NoonTime, state |-> <<"5">>],
                   [last_updated |-> 0, state |-> Chars("unknown")],
                   [last_updated |-> 0, state |-> <<"2", "5">>]>>]}

\* What the weather entity answers during an update: no state (as with no
\* component, no entity object or an exception: no forecast, the issue left
\* alone), a state without the hourly-forecast feature, or the hourly
\* forecast list: empty, one item without a temperature, an item this evening
\* and one tomorrow noon, or an item whose datetime is not a timestamp.
NoWeather == [kind |-> "no_state", items |-> <<>>]

WeatherOutcome ==
    {[kind |-> k, items |-> <<>>] : k \in {"no_state", "no_feature"}}
    \cup {[kind |-> "forecast", items |-> items] : items \in
            {<<>>,
             <<ForecastEntryOf(DtStr(64800), None, None)>>,
             <<ForecastEntryOf(DtStr(64800), Some(-10), None),
               ForecastEntryOf(DtStr(MidnightTime + NoonTime), Some(25), None)>>,
             <<ForecastEntryOf(DtGarbage, Some(25), None)>>}}

\* No flow has been started.
NoFlow == [handler |-> "none", entry_id |-> <<>>, step |-> "", user_input |-> <<>>, result |-> <<>>]

\* No weather entity was looked at.
NotAsked == [kind |-> "none", forecast_returned |-> FALSE, issue_before |-> FALSE]

\* What the store holds when the coordinator is constructed: nothing, a file
\* that cannot be read, values saved under the old key "daily_values", or
\* values saved under the current keys; with one date before the retention
\* cutoff of the first update, the cutoff date itself and a recent date.
StoredHdd ==
    [s \in {isoformat(FirstDay - DaysToKeep - 1), isoformat(FirstDay - DaysToKeep),
            isoformat(FirstDay - 6)} |-> 50]

StoredCdd ==
    [s \in {isoformat(FirstDay - DaysToKeep - 1), isoformat(FirstDay - 6)} |-> 20]

StoredContent ==
    {[kind |-> "none", daily_hdd_values |-> EmptyMap, daily_cdd_values |-> EmptyMap],
     [kind |-> "corrupt", daily_hdd_values |-> EmptyMap, daily_cdd_values |-> EmptyMap],
     [kind |-> "daily_values", daily_hdd_values |-> StoredHdd, daily_cdd_values |-> EmptyMap],
     [kind |-> "current", daily_hdd_values |-> StoredHdd, daily_cdd_values |-> StoredCdd]}

\* ------------------------------------------------------------------- state

VARIABLES
    readings,        \* the caller's list of readings (the object passed in)
    base_temp,       \* the caller's base temperature
    forecast_data,   \* the caller's list of forecast entries
    start_time,      \* start of the forecast window (actual_end_time)
    end_time,        \* end of the forecast window (forecast_end_time)
    called,          \* which function has been called last ("none" before any
                     \* call, "clock" after a step of the clock)
    arg_readings,    \* the caller's list as it was when the call was made
    raised,          \* TRUE when the call ended in an exception instead of a value
    ret,             \* the value returned, in tenths of a degree-day
    temp_history,    \* what the recorder answers for the temperature entity
    history_ret,     \* the list get_temperature_readings returned
    include_cooling,     \* coordinator option: CDD sensors enabled
    include_weekly,      \* coordinator option: weekly sensors enabled
    include_monthly,     \* coordinator option: monthly sensors enabled
    weather_entity,      \* coordinator option: TRUE when a weather entity is configured
    data,                \* the data the coordinator published last (None before)
    temperature_history, \* coordinator.temperature_history
    daily_hdd_values,    \* coordinator.daily_hdd_values: date -> value in tenths
    daily_cdd_values,    \* coordinator.daily_cdd_values: date -> value in tenths
    store,               \* the content of the persistent store
    issue,               \* TRUE while the repair issue weather_no_hourly_forecast exists
    now_day,             \* the date the clock shows, in days since 2024-01-01
    daily_readings,      \* the readings the last update got for yesterday
    update_now,          \* the time of day the last update read, once it had readings
    update_forecast,     \* the forecast it obtained (empty when it obtained none)
    update_today,        \* today's readings it fetched for the estimates
    update_weather,      \* what it found of the weather entity, and the issue before
    entries,             \* hass.config_entries: entry_id -> entry.data
    loaded,              \* entry_id -> the data its running integration was set up with
    flow,                \* the repair or config flow in progress
    registry,            \* the entity registry: entity_id -> registry entry
    migrating            \* the entry the unique-id migration ran for last (None before)

history_vars == <<temp_history, history_ret>>

options == <<include_cooling, include_weekly, include_monthly, weather_entity>>

\* The coordinator's own state; the issue registry is shared with the flows.
coordinator_state ==
    <<options, data, temperature_history, daily_hdd_values, daily_cdd_values,
      store, now_day, daily_readings, update_now, update_forecast,
      update_today, update_weather>>

coordinator_vars == <<coordinator_state, issue>>

platform_vars == <<entries, loaded, flow, registry, migrating>>

vars == <<readings, base_temp, forecast_data, start_time, end_time,
          called, arg_readings, raised, ret, history_vars, coordinator_vars,
          platform_vars>>

\* What a call of a calculation function leaves alone.
inputs == <<base_temp, forecast_data, start_time, end_time, history_vars,
            coordinator_vars, platform_vars>>

\* No history has been asked for and no coordinator is at work.
HistoryIdle ==
    /\ temp_history = [kind |-> "empty", states |-> <<>>]
    /\ history_ret = <<>>

CoordinatorIdle ==
    /\ include_cooling = FALSE
    /\ include_weekly = FALSE
    /\ include_monthly = FALSE
    /\ weather_entity = FALSE
    /\ data = <<>>
    /\ temperature_history = <<>>
    /\ daily_hdd_values = <<>>
    /\ daily_cdd_values = <<>>
    /\ store = <<>>
    /\ issue = FALSE
    /\ now_day = 0
    /\ daily_readings = <<>>
    /\ update_now = 0
    /\ update_forecast = <<>>
    /\ update_today = <<>>
    /\ update_weather = NotAsked

\* No config entry exists and no flow is in progress.
PlatformIdle ==
    /\ entries = EmptyMap
    /\ loaded = EmptyMap
    /\ flow = NoFlow
    /\ registry = EmptyMap
    /\ migrating = None

\* ------------------------------------------------------------- arithmetic

Max(a, b) == IF a >= b THEN a ELSE b

\* round-half-to-even of num / den to an integer (den > 0).
RoundHalfEven(num, den) ==
    LET q == num \div den
        r == num % den
    IN  IF 2 * r < den THEN q
        ELSE IF 2 * r > den THEN q + 1
        ELSE IF q % 2 = 0 THEN q ELSE q + 1

\* round(num / den, 1), in tenths.
Round1(num, den) == RoundHalfEven(10 * num, den)

\* sorted(readings, key=lambda x: x[0]) and list.sort(key=...): a stable
\* sort by timestamp.  InsertByTime puts r behind every element whose
\* timestamp is not later, so equal timestamps keep their input order.
InsertByTime(r, s) ==
    LET k == Cardinality({i \in 1..Len(s) : s[i][1] <= r[1]})
    IN  SubSeq(s, 1, k) \o <<r>> \o SubSeq(s, k + 1, Len(s))

RECURSIVE SortByTimestamp(_)
SortByTimestamp(s) ==
    IF s = <<>> THEN <<>>
    ELSE InsertByTime(s[Len(s)], SortByTimestamp(SubSeq(s, 1, Len(s) - 1)))

\* Faulty variant: the threshold taken as exactly one minute.
IntervalTooShort_OneMinute(interval_seconds) == interval_seconds < 60

\* interval_days < MIN_INTERVAL_DAYS, with interval_days = seconds / 86400.
IntervalTooShort(interval_seconds) ==
    interval_seconds * MIN_INTERVAL_DAYS_DEN < MIN_INTERVAL_DAYS_NUM * SecondsPerDay

\* ------------------------------- src/degree_days/calculations.py (pure)

\* Faulty variant: the deficit without its clamp at zero.
\* Faulty variant: the deficit taken on the warm side of the base.
Deficit_Reversed(base, temp) == Max(0, temp - base)

Deficit_Unclamped(base, temp) == base - temp

\* max(0.0, base_temp - temp)
Deficit(base, temp) == Max(0, base - temp)

\* Faulty variant: the absolute deviation instead of the clamped excess.
Excess_Absolute(base, temp) == IF temp >= base THEN temp - base ELSE base - temp

\* max(0.0, temp - base_temp)
Excess(base, temp) == Max(0, temp - base)

\* The for loop of calculate_hdd_from_readings from index i on.  total is
\* total_hdd times 2 * 86400: each interval adds
\* (current_deficit + next_deficit) * interval_seconds.
RECURSIVE HddLoop(_, _, _, _)
HddLoop(sorted_readings, base, i, total) ==
    IF i > Len(sorted_readings) - 1 THEN total
    ELSE LET current_time == sorted_readings[i][1]
             current_temp == sorted_readings[i][2]
             next_time == sorted_readings[i + 1][1]
             next_temp == sorted_readings[i + 1][2]
             interval_seconds == next_time - current_time
         IN  IF IntervalTooShort(interval_seconds)
             THEN HddLoop(sorted_readings, base, i + 1, total)
             ELSE HddLoop(sorted_readings, base, i + 1,
                          total + (Deficit(base, current_temp) + Deficit(base, next_temp))
                                  * interval_seconds)

RECURSIVE CddLoop(_, _, _, _)
CddLoop(sorted_readings, base, i, total) ==
    IF i > Len(sorted_readings) - 1 THEN total
    ELSE LET current_time == sorted_readings[i][1]
             current_temp == sorted_readings[i][2]
             next_time == sorted_readings[i + 1][1]
             next_temp == sorted_readings[i + 1][2]
             interval_seconds == next_time - current_time
         IN  IF IntervalTooShort(interval_seconds)
             THEN CddLoop(sorted_readings, base, i + 1, total)
             ELSE CddLoop(sorted_readings, base, i + 1,
                          total + (Excess(base, current_temp) + Excess(base, next_temp))
                                  * interval_seconds)

\* Faulty variant: a lone reading is taken for a whole day at its temperature.
calculate_hdd_from_readings_LoneReading(rs, base) ==
    IF rs = <<>> THEN 0
    ELSE IF Len(rs) = 1 THEN Round1(Max(0, base - rs[1][2]), 1)
    ELSE Round1(HddLoop(SortByTimestamp(rs), base, 1, 0), 2 * SecondsPerDay)

calculate_hdd_from_readings(rs, base) ==
    IF Len(rs) < 2 THEN 0
    ELSE Round1(HddLoop(SortByTimestamp(rs), base, 1, 0), 2 * SecondsPerDay)

calculate_cdd_from_readings(rs, base) ==
    IF Len(rs) < 2 THEN 0
    ELSE Round1(CddLoop(SortByTimestamp(rs), base, 1, 0), 2 * SecondsPerDay)

\* --------------------- custom_components/.../calculations.py (integration)

\* if interval_days < 0.0007
ha_IntervalTooShort(interval_seconds) ==
    interval_seconds * 10000 < 7 * SecondsPerDay

\* The for loop of the integration's calculate_hdd_from_readings, over the
\* list sorted in place.
RECURSIVE ha_HddLoop(_, _, _, _)
ha_HddLoop(rs, base, i, total) ==
    IF i > Len(rs) - 1 THEN total
    ELSE LET interval_seconds == rs[i + 1][1] - rs[i][1]
             current_deficit == Max(0, base - rs[i][2])
             next_deficit == Max(0, base - rs[i + 1][2])
         IN  IF ha_IntervalTooShort(interval_seconds)
             THEN ha_HddLoop(rs, base, i + 1, total)
             ELSE ha_HddLoop(rs, base, i + 1,
                             total + (current_deficit + next_deficit) * interval_seconds)

RECURSIVE ha_CddLoop(_, _, _, _)
ha_CddLoop(rs, base, i, total) ==
    IF i > Len(rs) - 1 THEN total
    ELSE LET interval_seconds == rs[i + 1][1] - rs[i][1]
             current_excess == Max(0, rs[i][2] - base)
             next_excess == Max(0, rs[i + 1][2] - base)
         IN  IF ha_IntervalTooShort(interval_seconds)
             THEN ha_CddLoop(rs, base, i + 1, total)
             ELSE ha_CddLoop(rs, base, i + 1,
                             total + (current_excess + next_excess) * interval_seconds)

\* The caller's list after the integration's calculate_hdd_from_readings or
\* calculate_cdd_from_readings: readings.sort(key=lambda x: x[0]) sorts the
\* list object that was passed in; an empty list returns before the sort.
ha_readings_after(rs) == IF rs = <<>> THEN rs ELSE SortByTimestamp(rs)

ha_calculate_hdd_from_readings(rs, base) ==
    IF rs = <<>> THEN 0
    ELSE Round1(ha_HddLoop(ha_readings_after(rs), base, 1, 0), 2 * SecondsPerDay)

ha_calculate_cdd_from_readings(rs, base) ==
    IF rs = <<>> THEN 0
    ELSE Round1(ha_CddLoop(ha_readings_after(rs), base, 1, 0), 2 * SecondsPerDay)

\* The outcome of a call: a value (in tenths) or an exception.
Returned(v) == [raised |-> FALSE, value |-> v]
Raised == [raised |-> TRUE, value |-> 0]

\* Twice the representative temperature of an entry that has a primary
\* temperature: templow + temp when templow is present ((templow + temp) / 2),
\* else temp + temp.
TwiceAvgTemp(forecast) ==
    IF forecast.templow # None
    THEN forecast.templow[1] + forecast.temperature[1]
    ELSE 2 * forecast.temperature[1]

\* The for loop of calculate_hdd_from_forecast from entry i on.  total is
\* total_hdd times 2 * 24: each counted entry adds twice its deficit (its
\* duration is 1/24 day).  The comparison of the timestamp with the window
\* is outside the try block: when parse_datetime returned None it raises
\* TypeError, which leaves the function.
RECURSIVE ForecastHddLoop(_, _, _, _, _, _)
ForecastHddLoop(fd, base, start, end, i, total) ==
    IF i > Len(fd) THEN Returned(Round1(total, 2 * 24))
    ELSE LET forecast == fd[i]
             dt == forecast.dt
             skip == ForecastHddLoop(fd, base, start, end, i + 1, total)
         IN  IF dt.kind = "none" THEN skip
             ELSE IF dt.kind = "str_invalid" THEN skip
             ELSE IF dt.kind = "str_garbage" THEN Raised
             ELSE IF dt.t < start \/ dt.t >= end THEN skip
             ELSE IF forecast.temperature = None THEN skip
             ELSE ForecastHddLoop(fd, base, start, end, i + 1,
                                  total + Max(0, 2 * base - TwiceAvgTemp(forecast)))

RECURSIVE ForecastCddLoop(_, _, _, _, _, _)
ForecastCddLoop(fd, base, start, end, i, total) ==
    IF i > Len(fd) THEN Returned(Round1(total, 2 * 24))
    ELSE LET forecast == fd[i]
             dt == forecast.dt
             skip == ForecastCddLoop(fd, base, start, end, i + 1, total)
         IN  IF dt.kind = "none" THEN skip
             ELSE IF dt.kind = "str_invalid" THEN skip
             ELSE IF dt.kind = "str_garbage" THEN Raised
             ELSE IF dt.t < start \/ dt.t >= end THEN skip
             ELSE IF forecast.temperature = None THEN skip
             ELSE ForecastCddLoop(fd, base, start, end, i + 1,
                                  total + Max(0, TwiceAvgTemp(forecast) - 2 * base))

calculate_hdd_from_forecast(fd, base, start, end) ==
    IF fd = <<>> THEN Returned(0) ELSE ForecastHddLoop(fd, base, start, end, 1, 0)

calculate_cdd_from_forecast(fd, base, start, end) ==
    IF fd = <<>> THEN Returned(0) ELSE ForecastCddLoop(fd, base, start, end, 1, 0)

\* Faulty variant: the HDD blend takes its forecast part from the CDD function.
combine_actual_and_forecast_hdd_CddForecast(rs, fd, base, actual_end_time, forecast_end_time) ==
    LET actual_hdd == ha_calculate_hdd_from_readings(rs, base)
        forecast_cdd == calculate_cdd_from_forecast(fd, base, actual_end_time,
                                                    forecast_end_time)
    IN  IF forecast_cdd.raised THEN Raised
        ELSE Returned(Round1(actual_hdd + forecast_cdd.value, 10))

\* actual + forecast, each already rounded, rounded again: round(total, 1).
combine_actual_and_forecast_hdd(rs, fd, base, actual_end_time, forecast_end_time) ==
    LET actual_hdd == ha_calculate_hdd_from_readings(rs, base)
        forecast_hdd == calculate_hdd_from_forecast(fd, base, actual_end_time,
                                                    forecast_end_time)
    IN  IF forecast_hdd.raised THEN Raised
        ELSE Returned(Round1(actual_hdd + forecast_hdd.value, 10))

combine_actual_and_forecast_cdd(rs, fd, base, actual_end_time, forecast_end_time) ==
    LET actual_cdd == ha_calculate_cdd_from_readings(rs, base)
        forecast_cdd == calculate_cdd_from_forecast(fd, base, actual_end_time,
                                                    forecast_end_time)
    IN  IF forecast_cdd.raised THEN Raised
        ELSE Returned(Round1(actual_cdd + forecast_cdd.value, 10))

\* str.replace(old, "", 1): s without the first occurrence of the character.
RECURSIVE RemoveFirst(_, _)
RemoveFirst(s, c) ==
    IF s = <<>> THEN <<>>
    ELSE IF Head(s) = c THEN Tail(s)
    ELSE <<Head(s)>> \o RemoveFirst(Tail(s), c)

\* str.isdigit(): at least one character and every character a digit
\* (the decimal digits and the other digit characters such as U+00B2).
str_isdigit(s) ==
    /\ s # <<>>
    /\ \A i \in 1..Len(s) : s[i] \in DecimalDigit \cup {SuperscriptTwo}

DigitValue(c) == CHOOSE n \in 0..9 : ToString(n) = c

\* The decimal value of a sequence of decimal digits.
RECURSIVE DigitsValue(_)
DigitsValue(ds) ==
    IF ds = <<>> THEN 0
    ELSE 10 * DigitsValue(SubSeq(ds, 1, Len(ds) - 1)) + DigitValue(ds[Len(ds)])

\* float(s) for a string of digits with at most one point, in tenths of a
\* degree (the strings drawn carry at most one fractional digit); it raises
\* ValueError for a digit character that is not a decimal digit.
float_raises(s) == \E i \in 1..Len(s) : s[i] \notin DecimalDigit \cup {"."}

float_tenths(s) ==
    LET point == IF \E i \in 1..Len(s) : s[i] = "."
                 THEN CHOOSE i \in 1..Len(s) : s[i] = "." ELSE Len(s) + 1
        whole == SubSeq(s, 1, point - 1)
        fraction == SubSeq(s, point + 1, Len(s))
    IN  10 * DigitsValue(whole) + (IF fraction = <<>> THEN 0 ELSE DigitValue(fraction[1]))

\* The filter of get_temperature_readings on one state.
IsValidState(state) ==
    /\ state.state \notin {Chars("unknown"), Chars("unavailable")}
    /\ str_isdigit(RemoveFirst(state.state, "."))

\* get_temperature_readings: the (last_updated, float(state)) pairs of the
\* states that pass the filter; [] when the lookup raises, answers nothing
\* or lacks the entity, and when float() raises (caught by except Exception).
get_temperature_readings(lookup) ==
    IF lookup.kind # "found" THEN <<>>
    ELSE LET valid == SelectSeq(lookup.states, IsValidState)
         IN  IF \E i \in 1..Len(valid) : float_raises(valid[i].state) THEN <<>>
             ELSE [i \in 1..Len(valid) |->
                      <<valid[i].last_updated, float_tenths(valid[i].state)>>]

\* ------------------------------------- custom_components/.../coordinator.py

\* The readings of get_temperature_readings, whose values are carried in
\* tenths, in the whole degrees the integrator operators take (the states
\* drawn for the coordinator hold whole degrees).
InDegrees(rs) == [i \in 1..Len(rs) |-> <<rs[i][1], rs[i][2] \div 10>>]

\* mapping[date] = value
Put(mapping, date, value) ==
    [d \in DOMAIN mapping \cup {date} |-> IF d = date THEN value ELSE mapping[d]]

\* Faulty variant: keeps only the dates after the cutoff.
KeepFrom_AfterCutoff(mapping, cutoff_date) == [d \in {x \in DOMAIN mapping : x > cutoff_date} |-> mapping[d]]

\* {date: value for date, value in mapping.items() if date >= cutoff_date}
KeepFrom(mapping, cutoff_date) ==
    [d \in {x \in DOMAIN mapping : x >= cutoff_date} |-> mapping[d]]

\* The sum of mapping.get(date, 0) over the dates first..last, one date
\* after the other.
RECURSIVE SumValues(_, _, _)
SumValues(mapping, first, last) ==
    IF first > last THEN 0
    ELSE (IF first \in DOMAIN mapping THEN mapping[first] ELSE 0)
         + SumValues(mapping, first + 1, last)

\* Faulty variant: the seven days ending with the date.
current_week_Trailing(mapping, reference_date) == SumValues(mapping, reference_date - 6, reference_date)

\* _calculate_current_week_hdd / _cdd: Monday to Sunday around the date.
current_week(mapping, reference_date) ==
    LET week_start == reference_date - Weekday(reference_date)
    IN  SumValues(mapping, week_start, week_start + 6)

\* _calculate_current_month_hdd / _cdd: the 1st to the last day of the month.
current_month(mapping, reference_date) ==
    LET month_start == MonthStart(MonthOf(reference_date))
        month_end == month_start + MonthLengths[MonthOf(reference_date)] - 1
    IN  SumValues(mapping, month_start, month_end)

\* Faulty variant: the heating sensor types only.
PeriodKeys_HeatingOnly ==
    {"SENSOR_TYPE_HDD_DAILY"}
    \cup (IF include_weekly THEN {"SENSOR_TYPE_HDD_WEEKLY"} ELSE {})
    \cup (IF include_monthly THEN {"SENSOR_TYPE_HDD_MONTHLY"} ELSE {})

\* The daily, weekly and monthly sensor types the options enable.
PeriodKeys ==
    {"SENSOR_TYPE_HDD_DAILY"}
    \cup (IF include_weekly THEN {"SENSOR_TYPE_HDD_WEEKLY"} ELSE {})
    \cup (IF include_monthly THEN {"SENSOR_TYPE_HDD_MONTHLY"} ELSE {})
    \cup (IF include_cooling
          THEN {"SENSOR_TYPE_CDD_DAILY"}
               \cup (IF include_weekly THEN {"SENSOR_TYPE_CDD_WEEKLY"} ELSE {})
               \cup (IF include_monthly THEN {"SENSOR_TYPE_CDD_MONTHLY"} ELSE {})
          ELSE {})

\* The estimate sensor types, present when a weather entity is configured.
EstimateKeys ==
    IF weather_entity
    THEN {"SENSOR_TYPE_HDD_ESTIMATED_TODAY", "SENSOR_TYPE_HDD_ESTIMATED_TOMORROW"}
         \cup (IF include_cooling
               THEN {"SENSOR_TYPE_CDD_ESTIMATED_TODAY", "SENSOR_TYPE_CDD_ESTIMATED_TOMORROW"}
               ELSE {})
    ELSE {}

\* The result of an update that found no readings.
EmptyResult == [k \in PeriodKeys |-> 0]

\* async_save_data: the two mappings with their dates in ISO format.
IsoKeyed(mapping) ==
    [s \in {isoformat(d) : d \in DOMAIN mapping} |->
        mapping[CHOOSE d \in DOMAIN mapping : isoformat(d) = s]]

SavedData(hdd_values, cdd_values) ==
    [kind |-> "current",
     daily_hdd_values |-> IsoKeyed(hdd_values),
     daily_cdd_values |-> IsoKeyed(cdd_values)]

\* async_load_stored_data: the dates parsed back from their ISO format.
DateKeyed(stored) ==
    [d \in {fromisoformat(s) : s \in DOMAIN stored} |->
        stored[CHOOSE s \in DOMAIN stored : fromisoformat(s) = d]]

\* _get_weather_forecast: None, or the items that have a datetime and a
\* temperature; and whether the repair issue exists afterwards.
weather_forecast(weather) ==
    IF weather.kind = "forecast" /\ weather.items # <<>>
    THEN LET Complete(item) == item.dt.kind # "none" /\ item.temperature # None
         IN  Some(SelectSeq(weather.items, Complete))
    ELSE None

\* Faulty variant: a successful fetch leaves the issue as it was.
issue_after_forecast_Kept(weather, issue_before) == IF weather.kind = "no_feature" THEN TRUE ELSE issue_before

issue_after_forecast(weather, issue_before) ==
    IF weather.kind = "no_feature" THEN TRUE
    ELSE IF weather.kind = "forecast" /\ weather.items # <<>> THEN FALSE
    ELSE issue_before

\* _calculate_today_estimated and _calculate_tomorrow_estimated: the four
\* estimates (today's blend up to the next midnight, tomorrow's forecast
\* over the day after), each a value or an exception.
Estimates(today_readings, forecast, base, now_time) ==
    [hdd_today |-> combine_actual_and_forecast_hdd(
                       today_readings, forecast, base, now_time, MidnightTime),
     cdd_today |-> IF include_cooling
                   THEN combine_actual_and_forecast_cdd(
                            today_readings, forecast, base, now_time, MidnightTime)
                   ELSE Returned(0),
     hdd_tomorrow |-> calculate_hdd_from_forecast(
                          forecast, base, MidnightTime, 2 * MidnightTime),
     cdd_tomorrow |-> IF include_cooling
                      THEN calculate_cdd_from_forecast(
                               forecast, base, MidnightTime, 2 * MidnightTime)
                      ELSE Returned(0)]

\* The result dict of an update that found readings; estimates is None when
\* no forecast was obtained.
UpdateResult(daily_hdd, daily_cdd, hdd_values, cdd_values, yesterday_date, estimates) ==
    [k \in PeriodKeys \cup EstimateKeys |->
        CASE k = "SENSOR_TYPE_HDD_DAILY" -> daily_hdd
          [] k = "SENSOR_TYPE_HDD_WEEKLY" -> current_week(hdd_values, yesterday_date)
          [] k = "SENSOR_TYPE_HDD_MONTHLY" -> current_month(hdd_values, yesterday_date)
          [] k = "SENSOR_TYPE_CDD_DAILY" -> daily_cdd
          [] k = "SENSOR_TYPE_CDD_WEEKLY" -> current_week(cdd_values, yesterday_date)
          [] k = "SENSOR_TYPE_CDD_MONTHLY" -> current_month(cdd_values, yesterday_date)
          [] k = "SENSOR_TYPE_HDD_ESTIMATED_TODAY" ->
                IF estimates = None THEN None ELSE Some(estimates[1].hdd_today.value)
          [] k = "SENSOR_TYPE_CDD_ESTIMATED_TODAY" ->
                IF estimates = None THEN None ELSE Some(estimates[1].cdd_today.value)
          [] k = "SENSOR_TYPE_HDD_ESTIMATED_TOMORROW" ->
                IF estimates = None THEN None ELSE Some(estimates[1].hdd_tomorrow.value)
          [] k = "SENSOR_TYPE_CDD_ESTIMATED_TOMORROW" ->
                IF estimates = None THEN None ELSE Some(estimates[1].cdd_tomorrow.value)]

\* ------------------------------------------------------------------ actions

\* The integrator on its own: any readings list, no forecast.
Init ==
    /\ readings \in BoundedSeq(TemperatureReading, MaxLen)
    /\ base_temp \in BaseTemps
    /\ forecast_data = <<>>
    /\ start_time = NoonTime
    /\ end_time = MidnightTime
    /\ called = "none"
    /\ arg_readings = <<>>
    /\ raised = FALSE
    /\ ret = 0
    /\ HistoryIdle
    /\ CoordinatorIdle
    /\ PlatformIdle

\* The blender: today's readings up to noon and a forecast list.
InitBlend ==
    /\ readings \in BoundedSeq(BlendReading, MaxBlendLen)
    /\ base_temp \in BaseTemps
    /\ forecast_data \in BoundedSeq(BlendForecastEntry, MaxForecast)
    /\ start_time = NoonTime
    /\ end_time = MidnightTime
    /\ called = "none"
    /\ arg_readings = <<>>
    /\ raised = FALSE
    /\ ret = 0
    /\ HistoryIdle
    /\ CoordinatorIdle
    /\ PlatformIdle

\* The integrator on the shorter lists whose variations are compared.
InitVaried ==
    /\ readings \in BoundedSeq(TemperatureReading, MaxVariedLen)
    /\ base_temp \in BaseTemps
    /\ forecast_data = <<>>
    /\ start_time = NoonTime
    /\ end_time = MidnightTime
    /\ called = "none"
    /\ arg_readings = <<>>
    /\ raised = FALSE
    /\ ret = 0
    /\ HistoryIdle
    /\ CoordinatorIdle
    /\ PlatformIdle

\* The forecast functions on their own: any forecast list, no readings.
InitForecast ==
    /\ readings = <<>>
    /\ base_temp \in BaseTemps
    /\ forecast_data \in BoundedSeq(ForecastEntry, MaxForecast)
    /\ start_time = NoonTime
    /\ end_time = MidnightTime
    /\ called = "none"
    /\ arg_readings = <<>>
    /\ raised = FALSE
    /\ ret = 0
    /\ HistoryIdle
    /\ CoordinatorIdle
    /\ PlatformIdle

\* calculate_hdd_from_readings(readings, base_temp) of the pure package.
CalculateHdd ==
    /\ called = "none"
    /\ called' = "calculate_hdd_from_readings"
    /\ arg_readings' = readings
    /\ ret' = calculate_hdd_from_readings(readings, base_temp)
    /\ raised' = FALSE
    /\ UNCHANGED <<readings, inputs>>

\* calculate_cdd_from_readings(readings, base_temp) of the pure package.
CalculateCdd ==
    /\ called = "none"
    /\ called' = "calculate_cdd_from_readings"
    /\ arg_readings' = readings
    /\ ret' = calculate_cdd_from_readings(readings, base_temp)
    /\ raised' = FALSE
    /\ UNCHANGED <<readings, inputs>>

\* The integration's calculate_hdd_from_readings(readings, base_temp).
HaCalculateHdd ==
    /\ called = "none"
    /\ called' = "ha_calculate_hdd_from_readings"
    /\ arg_readings' = readings
    /\ readings' = ha_readings_after(readings)
    /\ ret' = ha_calculate_hdd_from_readings(readings, base_temp)
    /\ raised' = FALSE
    /\ UNCHANGED inputs

\* The integration's calculate_cdd_from_readings(readings, base_temp).
HaCalculateCdd ==
    /\ called = "none"
    /\ called' = "ha_calculate_cdd_from_readings"
    /\ arg_readings' = readings
    /\ readings' = ha_readings_after(readings)
    /\ ret' = ha_calculate_cdd_from_readings(readings, base_temp)
    /\ raised' = FALSE
    /\ UNCHANGED inputs

\* calculate_hdd_from_forecast(forecast_data, base_temp, start_time, end_time)
CalculateHddFromForecast ==
    /\ called = "none"
    /\ called' = "calculate_hdd_from_forecast"
    /\ arg_readings' = readings
    /\ LET out == calculate_hdd_from_forecast(forecast_data, base_temp,
                                              start_time, end_time)
       IN  raised' = out.raised /\ ret' = out.value
    /\ UNCHANGED <<readings, inputs>>

\* calculate_cdd_from_forecast(forecast_data, base_temp, start_time, end_time)
CalculateCddFromForecast ==
    /\ called = "none"
    /\ called' = "calculate_cdd_from_forecast"
    /\ arg_readings' = readings
    /\ LET out == calculate_cdd_from_forecast(forecast_data, base_temp,
                                              start_time, end_time)
       IN  raised' = out.raised /\ ret' = out.value
    /\ UNCHANGED <<readings, inputs>>

\* combine_actual_and_forecast_hdd(readings, forecast_data, base_temp,
\* start_time, end_time).  The readings were sorted by the integrator before
\* the forecast part runs, also when that part raises.
CombineHdd ==
    /\ called = "none"
    /\ called' = "combine_actual_and_forecast_hdd"
    /\ arg_readings' = readings
    /\ readings' = ha_readings_after(readings)
    /\ LET out == combine_actual_and_forecast_hdd(readings, forecast_data, base_temp,
                                                  start_time, end_time)
       IN  raised' = out.raised /\ ret' = out.value
    /\ UNCHANGED inputs

\* combine_actual_and_forecast_cdd(readings, forecast_data, base_temp,
\* start_time, end_time).
CombineCdd ==
    /\ called = "none"
    /\ called' = "combine_actual_and_forecast_cdd"
    /\ arg_readings' = readings
    /\ readings' = ha_readings_after(readings)
    /\ LET out == combine_actual_and_forecast_cdd(readings, forecast_data, base_temp,
                                                  start_time, end_time)
       IN  raised' = out.raised /\ ret' = out.value
    /\ UNCHANGED inputs

Next ==
    \/ CalculateHdd
    \/ CalculateCdd
    \/ HaCalculateHdd
    \/ HaCalculateCdd

NextBlend ==
    \/ CalculateHdd
    \/ CalculateCdd
    \/ HaCalculateHdd
    \/ HaCalculateCdd
    \/ CalculateHddFromForecast
    \/ CalculateCddFromForecast
    \/ CombineHdd
    \/ CombineCdd

Spec == Init /\ [][Next]_vars

SpecBlend == InitBlend /\ [][NextBlend]_vars

\* The recorder's history on its own.
InitHistory ==
    /\ readings = <<>>
    /\ base_temp \in BaseTemps
    /\ forecast_data = <<>>
    /\ start_time = NoonTime
    /\ end_time = MidnightTime
    /\ called = "none"
    /\ arg_readings = <<>>
    /\ raised = FALSE
    /\ ret = 0
    /\ temp_history \in HistoryLookup
    /\ history_ret = <<>>
    /\ CoordinatorIdle
    /\ PlatformIdle

\* get_temperature_readings(hass, start_time, end_time, entity_id)
GetTemperatureReadings ==
    /\ called = "none"
    /\ called' = "get_temperature_readings"
    /\ history_ret' = get_temperature_readings(temp_history)
    /\ UNCHANGED <<readings, base_temp, forecast_data, start_time, end_time,
                   arg_readings, raised, ret, temp_history, coordinator_vars,
                   platform_vars>>

SpecHistory == InitHistory /\ [][GetTemperatureReadings]_vars

\* A coordinator as constructed, with its options chosen, over a store that
\* may hold data of an earlier run.
InitCoordinator ==
    /\ readings = <<>>
    /\ base_temp = 18
    /\ forecast_data = <<>>
    /\ start_time = NoonTime
    /\ end_time = MidnightTime
    /\ called = "none"
    /\ arg_readings = <<>>
    /\ raised = FALSE
    /\ ret = 0
    /\ HistoryIdle
    /\ include_cooling \in BOOLEAN
    /\ include_weekly \in BOOLEAN
    /\ include_monthly \in BOOLEAN
    /\ weather_entity \in BOOLEAN
    /\ data = None
    /\ temperature_history = <<>>
    /\ daily_hdd_values = EmptyMap
    /\ daily_cdd_values = EmptyMap
    /\ store \in StoredContent
    /\ issue = FALSE
    /\ now_day = FirstDay
    /\ daily_readings = <<>>
    /\ update_now = 0
    /\ update_forecast = <<>>
    /\ update_today = <<>>
    /\ update_weather = NotAsked
    /\ PlatformIdle

\* What no coordinator operation touches.
calculation_vars ==
    <<readings, base_temp, forecast_data, start_time, end_time, arg_readings, ret,
      history_vars, options, platform_vars>>

\* async_load_stored_data(), called once at setup before the first refresh.
LoadStoredData ==
    /\ called = "none"
    /\ called' = "async_load_stored_data"
    /\ raised' = FALSE
    /\ daily_hdd_values' =
          CASE store.kind = "none" -> daily_hdd_values
            [] store.kind = "corrupt" -> EmptyMap
            [] OTHER -> DateKeyed(store.daily_hdd_values)
    /\ daily_cdd_values' =
          CASE store.kind = "none" -> daily_cdd_values
            [] store.kind = "corrupt" -> EmptyMap
            [] store.kind = "daily_values" -> daily_cdd_values
            [] OTHER -> DateKeyed(store.daily_cdd_values)
    /\ UNCHANGED <<calculation_vars, data, temperature_history, store, issue,
                   now_day, daily_readings, update_now, update_forecast, update_today,
                   update_weather>>

\* The clock reaches the next day, some time after setup.
Tick ==
    /\ called # "none"
    /\ now_day < FirstDay + MaxDays
    /\ now_day' = now_day + 1
    /\ called' = "clock"
    /\ UNCHANGED <<calculation_vars, raised, data, temperature_history,
                   daily_hdd_values, daily_cdd_values, store, issue, daily_readings,
                   update_now, update_forecast, update_today, update_weather>>

\* _async_update_data() followed by the coordinator publishing what it
\* returned (an exception leaves the published data as it was).  Each answer
\* of the environment is drawn where the handler asks for it: what the
\* recorder holds for yesterday, the time of day of the first clock read (noon
\* or the last second of the day), the date _cleanup_old_data reads from the
\* clock (the next day only after a start in the last second), what the
\* weather entity answers, what the recorder holds for today.  Each local of
\* the handler is bound once; yesterday_date is now_day - 1 and cutoff_date
\* is cleanup_day - DaysToKeep.
AsyncUpdateData ==
    /\ called # "none"
    /\ called' = "_async_update_data"
    /\ UNCHANGED calculation_vars
    /\ \E yesterday \in CoordinatorLookup :
       \E found \in {get_temperature_readings(yesterday)} :
        /\ daily_readings' = found
        /\ IF found = <<>>
           THEN /\ data' = IF data # None THEN data ELSE Some(EmptyResult)
                /\ raised' = FALSE
                /\ update_now' = 0
                /\ update_forecast' = <<>>
                /\ update_today' = <<>>
                /\ update_weather' = NotAsked
                /\ UNCHANGED <<temperature_history, daily_hdd_values, daily_cdd_values,
                               store, issue, now_day>>
           ELSE \E now_time \in {NoonTime, LastSecond},
                   cleanup_day \in {d \in {now_day, now_day + 1} : d <= FirstDay + MaxDays},
                   weather \in (IF weather_entity THEN WeatherOutcome ELSE {NoWeather}) :
                /\ cleanup_day = now_day \/ now_time = LastSecond
                /\ \E daily_hdd \in {ha_calculate_hdd_from_readings(InDegrees(found), base_temp)},
                      daily_cdd \in {IF include_cooling
                                     THEN ha_calculate_cdd_from_readings(InDegrees(found),
                                                                         base_temp)
                                     ELSE 0},
                      forecast \in {IF weather_entity THEN weather_forecast(weather) ELSE None} :
                   \E hdd_values \in {KeepFrom(Put(daily_hdd_values, now_day - 1, daily_hdd),
                                               cleanup_day - DaysToKeep)},
                      cdd_values \in {KeepFrom(IF include_cooling
                                               THEN Put(daily_cdd_values, now_day - 1, daily_cdd)
                                               ELSE daily_cdd_values,
                                               cleanup_day - DaysToKeep)},
                      today \in (IF forecast \in {None, Some(<<>>)}
                                 THEN {NoHistory} ELSE CoordinatorLookup) :
                   \E estimates \in {IF forecast \in {None, Some(<<>>)} THEN None
                                     ELSE Some(Estimates(
                                              InDegrees(get_temperature_readings(today)),
                                              forecast[1], base_temp, now_time))} :
                   LET failed == /\ estimates # None
                                 /\ \/ estimates[1].hdd_today.raised
                                    \/ estimates[1].cdd_today.raised
                                    \/ estimates[1].hdd_tomorrow.raised
                                    \/ estimates[1].cdd_tomorrow.raised
                   IN  /\ update_now' = now_time
                       /\ update_forecast' = IF forecast = None THEN <<>> ELSE forecast[1]
                       /\ update_today' = IF estimates = None THEN <<>>
                                          ELSE get_temperature_readings(today)
                       /\ update_weather' = IF weather_entity
                                           THEN [kind |-> weather.kind,
                                                 forecast_returned |-> weather.items # <<>>,
                                                 issue_before |-> issue]
                                           ELSE NotAsked
                       /\ temperature_history' = ha_readings_after(found)
                       /\ daily_hdd_values' = hdd_values
                       /\ daily_cdd_values' = cdd_values
                       /\ store' = SavedData(hdd_values, cdd_values)
                       /\ now_day' = cleanup_day
                       /\ issue' = IF weather_entity
                                   THEN issue_after_forecast(weather, issue)
                                   ELSE FALSE
                       /\ raised' = failed
                       /\ data' = IF failed THEN data
                                  ELSE Some(UpdateResult(daily_hdd, daily_cdd, hdd_values,
                                                         cdd_values, now_day - 1, estimates))

NextCoordinator ==
    \/ LoadStoredData
    \/ Tick
    \/ AsyncUpdateData

SpecCoordinator == InitCoordinator /\ [][NextCoordinator]_vars

SpecVaried == InitVaried /\ [][Next]_vars

NextForecast ==
    \/ CalculateHddFromForecast
    \/ CalculateCddFromForecast

SpecForecast == InitForecast /\ [][NextForecast]_vars

\* ------------------------------------------------------ claim vocabulary

ReadingsCalls == {"calculate_hdd_from_readings", "ha_calculate_hdd_from_readings",
                  "calculate_cdd_from_readings", "ha_calculate_cdd_from_readings"}
HddReadingsCalls == {"calculate_hdd_from_readings", "ha_calculate_hdd_from_readings"}
CddReadingsCalls == {"calculate_cdd_from_readings", "ha_calculate_cdd_from_readings"}

\* What the function named fn returns for the readings rs.
ReadingsResult(fn, rs, base) ==
    CASE fn = "calculate_hdd_from_readings" -> calculate_hdd_from_readings(rs, base)
      [] fn = "calculate_cdd_from_readings" -> calculate_cdd_from_readings(rs, base)
      [] fn = "ha_calculate_hdd_from_readings" -> ha_calculate_hdd_from_readings(rs, base)
      [] fn = "ha_calculate_cdd_from_readings" -> ha_calculate_cdd_from_readings(rs, base)

\* The readings in timestamp order, stated by rank instead of by a sorting
\* procedure: reading i comes after every reading with an earlier timestamp
\* and after the readings with the same timestamp that precede it in rs.
StableRank(rs, i) ==
    Cardinality({j \in 1..Len(rs) :
                    \/ rs[j][1] < rs[i][1]
                    \/ (rs[j][1] = rs[i][1] /\ j <= i)})

TimestampSorted(rs) ==
    [k \in 1..Len(rs) |-> rs[CHOOSE i \in 1..Len(rs) : StableRank(rs, i) = k]]

RECURSIVE SeqSum(_)
SeqSum(s) == IF s = <<>> THEN 0 ELSE s[1] + SeqSum(Tail(s))

\* max(0, base - T) for HDD, max(0, T - base) for CDD.
OneSided(fn, base, temp) ==
    IF fn \in HddReadingsCalls
    THEN (IF base > temp THEN base - temp ELSE 0)
    ELSE (IF temp > base THEN temp - base ELSE 0)

\* Twice the sum of the trapezoids, in degree-seconds, over the adjacent
\* pairs of sr whose gap is at least 0.0007 days (gap / 86400 >= 7 / 10000).
TrapezoidTerms(fn, sr, base) ==
    [i \in 1..(Len(sr) - 1) |->
        LET gap == sr[i + 1][1] - sr[i][1]
        IN  IF gap * 10000 >= 7 * 86400
            THEN (OneSided(fn, base, sr[i][2]) + OneSided(fn, base, sr[i + 1][2])) * gap
            ELSE 0]

Temps(rs) == {rs[i][2] : i \in 1..Len(rs)}
Times(rs) == {rs[i][1] : i \in 1..Len(rs)}
Earliest(rs) == CHOOSE t \in Times(rs) : \A u \in Times(rs) : t <= u
Latest(rs) == CHOOSE t \in Times(rs) : \A u \in Times(rs) : t >= u
SpanSeconds(rs) == Latest(rs) - Earliest(rs)

\* Every rearrangement of rs.
Rearrangements(rs) ==
    {[i \in 1..Len(rs) |-> rs[p[i]]] :
        p \in {q \in [1..Len(rs) -> 1..Len(rs)] :
                  \A a, b \in 1..Len(rs) : a # b => q[a] # q[b]}}

\* ------------------------------------------------------------------ claims

\* C1: for at least 2 readings, calculate_hdd_from_readings returns the
\* 1-decimal rounding of the sum, over the adjacent pairs of the
\* timestamp-sorted readings whose gap is at least 0.0007 days, of the mean of
\* the two endpoint deficits times the gap in days; calculate_cdd_from_readings
\* the same with the excess.
C1_TrapezoidalSum ==
    (called \in ReadingsCalls /\ Len(arg_readings) >= 2) =>
        /\ ~raised
        /\ ret = RoundHalfEven(
                    10 * SeqSum(TrapezoidTerms(called, TimestampSorted(arg_readings),
                                               base_temp)),
                    2 * 86400)

\* A call on three readings given out of order, with one gap below the
\* threshold and one above, that returned a positive value.
C1_Witness ==
    /\ called \in {"calculate_hdd_from_readings", "calculate_cdd_from_readings"}
    /\ Len(arg_readings) = 3
    /\ arg_readings # TimestampSorted(arg_readings)
    /\ Times(arg_readings) = {0, 60, 43200}
    /\ ret > 0

\* C2: with 0 or 1 readings both functions return exactly 0.0, whatever the
\* temperature of the single reading.
C2_FewerThanTwoReadings ==
    (called \in ReadingsCalls /\ Len(arg_readings) < 2) => (~raised /\ ret = 0)

\* A call on a single reading far below the base temperature.
C2_Witness ==
    /\ called = "calculate_hdd_from_readings"
    /\ Len(arg_readings) = 1
    /\ arg_readings[1][2] < base_temp
    /\ ret = 0

\* C3: order-invariance: every rearrangement of the readings, also of
\* readings that share a timestamp and differ in temperature, gives the value
\* the call returned.
C3_OrderInvariance ==
    (called \in ReadingsCalls) =>
        \A p \in Rearrangements(arg_readings) :
            ReadingsResult(called, p, base_temp) = ret

\* C4: readings that all carry the temperature T and whose earliest and
\* latest timestamps are exactly 24 hours apart give HDD = max(0, B - T) and
\* CDD = max(0, T - B), however many they are and however they are spaced.
C4_UnitScale ==
    (/\ called \in ReadingsCalls
     /\ Len(arg_readings) >= 2
     /\ Cardinality(Temps(arg_readings)) = 1
     /\ SpanSeconds(arg_readings) = 24 * 3600) =>
        ret = 10 * OneSided(called, base_temp, arg_readings[1][2])

\* An extra reading r may be inserted into rs when its timestamp is new, and
\* some reading of rs less than 60 seconds away carries its temperature.
Insertable(rs, r) ==
    /\ r[1] \notin Times(rs)
    /\ \E i \in 1..Len(rs) :
          /\ rs[i][2] = r[2]
          /\ r[1] - rs[i][1] < 60
          /\ rs[i][1] - r[1] < 60

\* C5: sub-minute-interval insensitivity: inserting extra readings (here one
\* or two), each less than 1 minute away from an existing or previously
\* inserted reading and carrying its temperature, leaves the result unchanged.
C5_SubMinuteInsensitivity ==
    (called \in ReadingsCalls) =>
        \A r1 \in TemperatureReading :
            Insertable(arg_readings, r1) =>
                /\ ReadingsResult(called, Append(arg_readings, r1), base_temp) = ret
                /\ \A r2 \in TemperatureReading :
                      Insertable(Append(arg_readings, r1), r2) =>
                          ReadingsResult(called, Append(Append(arg_readings, r1), r2),
                                         base_temp) = ret

\* C6: after calculate_hdd_from_readings, calculate_cdd_from_readings,
\* combine_actual_and_forecast_hdd or combine_actual_and_forecast_cdd returns
\* (or raises), the caller's readings list holds the same elements in the
\* same order as before the call.
C6_ReadingsUntouched ==
    (called # "none") => readings = arg_readings

\* C7: every value returned by the readings functions, the forecast
\* functions and the combine functions is greater than or equal to 0.
C7_NonNegative ==
    (called # "none" /\ ~raised) => ret >= 0

\* A blend of readings above and below base with a counted forecast entry
\* that returned a positive value.
C7_Witness ==
    /\ called = "combine_actual_and_forecast_hdd"
    /\ ~raised
    /\ Len(arg_readings) = 2
    /\ \E i \in 1..2 : arg_readings[i][2] > base_temp
    /\ \E i \in 1..Len(forecast_data) :
          /\ forecast_data[i].dt.kind = "datetime"
          /\ forecast_data[i].dt.t = 64800
          /\ forecast_data[i].temperature = Some(25)
    /\ base_temp = 18
    /\ ret > 0

\* The sorted gaps of rs are all at least 1 minute.
GapsAtLeastOneMinute(rs) ==
    LET sr == TimestampSorted(rs)
    IN  \A i \in 1..(Len(sr) - 1) : sr[i + 1][1] - sr[i][1] >= 60

\* C8: partial-day scaling: readings that all carry the temperature T, span
\* exactly H hours and are at least 1 minute apart give max(0, B - T) * H / 24
\* (HDD) and max(0, T - B) * H / 24 (CDD), rounded to 1 decimal.
C8_PartialDayScaling ==
    (/\ called \in ReadingsCalls
     /\ Len(arg_readings) >= 2
     /\ Cardinality(Temps(arg_readings)) = 1
     /\ GapsAtLeastOneMinute(arg_readings)
     /\ SpanSeconds(arg_readings) % 3600 = 0) =>
        ret = RoundHalfEven(10 * OneSided(called, base_temp, arg_readings[1][2])
                               * (SpanSeconds(arg_readings) \div 3600),
                            24)

\* C9: complementarity: when every temperature is at or above base the HDD
\* is 0, when every temperature is at or below base the CDD is 0; so for a
\* constant temperature at most one of HDD and CDD is nonzero.
C9_Complementarity ==
    /\ (called \in HddReadingsCalls /\ \A T \in Temps(arg_readings) : T >= base_temp)
          => ret = 0
    /\ (called \in CddReadingsCalls /\ \A T \in Temps(arg_readings) : T <= base_temp)
          => ret = 0
    /\ (called \in ReadingsCalls /\ Cardinality(Temps(arg_readings)) = 1)
          => \/ calculate_hdd_from_readings(arg_readings, base_temp) = 0
             \/ calculate_cdd_from_readings(arg_readings, base_temp) = 0

\* A CDD call on a full day of readings at or below base, some of them below.
C9_Witness ==
    /\ called = "calculate_cdd_from_readings"
    /\ Len(arg_readings) >= 2
    /\ SpanSeconds(arg_readings) = 24 * 3600
    /\ \A T \in Temps(arg_readings) : T <= base_temp
    /\ \E T \in Temps(arg_readings) : T < base_temp
    /\ ret = 0

\* C10: blending additivity: combine_actual_and_forecast_hdd equals
\* round(calculate_hdd_from_readings + calculate_hdd_from_forecast over
\* [t_end, t_forecast_end), 1), each part rounded to 1 decimal before the sum
\* (so the sum of the two rounded parts is the result); the same for CDD.
C10_BlendingAdditivity ==
    /\ (called = "combine_actual_and_forecast_hdd") =>
          LET part == calculate_hdd_from_forecast(forecast_data, base_temp,
                                                  start_time, end_time)
          IN  /\ raised = part.raised
              /\ ~raised => ret = ha_calculate_hdd_from_readings(arg_readings, base_temp)
                                  + part.value
    /\ (called = "combine_actual_and_forecast_cdd") =>
          LET part == calculate_cdd_from_forecast(forecast_data, base_temp,
                                                  start_time, end_time)
          IN  /\ raised = part.raised
              /\ ~raised => ret = ha_calculate_cdd_from_readings(arg_readings, base_temp)
                                  + part.value

\* A blend in which both the readings and the forecast contribute.
C10_Witness ==
    /\ called = "combine_actual_and_forecast_hdd"
    /\ ~raised
    /\ ha_calculate_hdd_from_readings(arg_readings, base_temp) > 0
    /\ calculate_hdd_from_forecast(forecast_data, base_temp, start_time, end_time).value > 0
    /\ ret > ha_calculate_hdd_from_readings(arg_readings, base_temp)


\* ------------------------------------------------------------ monotonicity

\* rs with the temperature of reading i replaced by temp.
WithTemperature(rs, i, temp) == [rs EXCEPT ![i] = <<rs[i][1], temp>>]

\* Readings later than every reading of rs: half a minute, half a day and a
\* day after the latest one (any reading time when rs is empty).
LaterReadings(rs) ==
    IF rs = <<>> THEN TemperatureReading
    ELSE {Latest(rs) + 30, Latest(rs) + 43200, Latest(rs) + 86400} \X ReadingTemps

\* C15: monotonicity: lowering the temperature of any reading never decreases
\* calculate_hdd_from_readings, raising it never decreases
\* calculate_cdd_from_readings, and appending a reading later than all
\* existing ones never decreases either result.
C15_Monotonicity ==
    (called \in ReadingsCalls) =>
        /\ \A i \in 1..Len(arg_readings) : \A temp \in ReadingTemps :
              (IF called \in HddReadingsCalls
               THEN temp < arg_readings[i][2] ELSE temp > arg_readings[i][2])
              => ReadingsResult(called, WithTemperature(arg_readings, i, temp), base_temp) >= ret
        /\ \A r \in LaterReadings(arg_readings) :
              ReadingsResult(called, Append(arg_readings, r), base_temp) >= ret

\* A heating result that grows when a reading is made colder and when a
\* later reading is appended.
C15_Witness ==
    /\ called = "calculate_hdd_from_readings"
    /\ ret > 0
    /\ \E i \in 1..Len(arg_readings) : \E temp \in ReadingTemps :
          /\ temp < arg_readings[i][2]
          /\ calculate_hdd_from_readings(WithTemperature(arg_readings, i, temp), base_temp) > ret
    /\ \E r \in LaterReadings(arg_readings) :
          calculate_hdd_from_readings(Append(arg_readings, r), base_temp) > ret

\* ------------------------------------------------------ interval handling

\* Twice the sum of the trapezoids, in degree-seconds, over the adjacent
\* pairs of sr that are at least one minute apart.
OneMinuteTerms(fn, sr, base) ==
    [i \in 1..(Len(sr) - 1) |->
        LET gap == sr[i + 1][1] - sr[i][1]
        IN  IF gap >= 60
            THEN (OneSided(fn, base, sr[i][2]) + OneSided(fn, base, sr[i + 1][2])) * gap
            ELSE 0]

\* C16: an interval between two consecutive sorted readings is skipped
\* exactly when it is shorter than 1 minute: an interval of 60 seconds or
\* longer contributes its trapezoid, a shorter one contributes nothing.
C16_OneMinuteThreshold ==
    (called \in ReadingsCalls) =>
        ret = RoundHalfEven(
                10 * SeqSum(OneMinuteTerms(called, TimestampSorted(arg_readings), base_temp)),
                2 * 86400)

RECURSIVE Gcd(_, _)
Gcd(a, b) == IF b = 0 THEN a ELSE Gcd(b, a % b)

RECURSIVE LcmOf(_)
LcmOf(S) ==
    IF S = {} THEN 1
    ELSE LET x == CHOOSE y \in S : TRUE
             rest == LcmOf(S \ {x})
         IN  (x \div Gcd(x, rest)) * rest

\* A common multiple of every temperature difference between two readings.
SpreadLcm ==
    LcmOf({a - b : <<a, b>> \in {p \in ReadingTemps \X ReadingTemps : p[1] > p[2]}})

\* The integral of the one-sided deviation of the linearly interpolated
\* temperature over one interval, in units of 1 / (2 * SpreadLcm) degrees
\* times 30 seconds (every reading time is a multiple of 30 seconds).  When
\* one endpoint deviates by d and the other lies across the base, the
\* temperature is on the relevant side for the fraction d / |T1 - T2| of the
\* interval and deviates by d / 2 on average there.
InterpolatedTerm(fn, base, r1, r2) ==
    LET d1 == OneSided(fn, base, r1[2])
        d2 == OneSided(fn, base, r2[2])
        gap == (r2[1] - r1[1]) \div 30
        width == IF r1[2] > r2[2] THEN r1[2] - r2[2] ELSE r2[2] - r1[2]
    IN  IF d1 > 0 /\ d2 = 0 THEN d1 * d1 * gap * (SpreadLcm \div width)
        ELSE IF d2 > 0 /\ d1 = 0 THEN d2 * d2 * gap * (SpreadLcm \div width)
        ELSE (d1 + d2) * gap * SpreadLcm

\* One interpolated term per adjacent pair of sr that the code integrates
\* (gap of at least 0.0007 days).
InterpolatedTerms(fn, sr, base) ==
    [i \in 1..(Len(sr) - 1) |->
        IF (sr[i + 1][1] - sr[i][1]) * 10000 >= 7 * 86400
        THEN InterpolatedTerm(fn, base, sr[i], sr[i + 1])
        ELSE 0]

\* C17: for each interval between consecutive readings the HDD contribution
\* is the duration during which the linearly interpolated temperature was
\* below the base multiplied by the average deficit over that duration (CDD:
\* the duration above base times the average excess); an interval whose
\* endpoints lie on opposite sides of the base contributes only for the part
\* of it on the relevant side.
C17_InterpolatedCrossing ==
    (called \in ReadingsCalls) =>
        ret = RoundHalfEven(
                10 * SeqSum(InterpolatedTerms(called, TimestampSorted(arg_readings), base_temp)),
                2 * SpreadLcm * (86400 \div 30))

\* ------------------------------------------------ forecast claim vocabulary

ForecastCalls == {"calculate_hdd_from_forecast", "calculate_cdd_from_forecast"}

\* What the call returned or that it raised.
Outcome == [raised |-> raised, value |-> ret]

\* The outcome of the forecast function named fn on the list fd, with the
\* state's base temperature and window.
ForecastResult(fn, fd) ==
    IF fn = "calculate_hdd_from_forecast"
    THEN calculate_hdd_from_forecast(fd, base_temp, start_time, end_time)
    ELSE calculate_cdd_from_forecast(fd, base_temp, start_time, end_time)

\* The entry carries a timestamp: a datetime, or a string that denotes one.
HasTimestamp(e) == e.dt.kind \in {"datetime", "str_ok"}

\* The entry's timestamp lies in [start_time, end_time).
InWindow(e) == HasTimestamp(e) /\ start_time <= e.dt.t /\ e.dt.t < end_time

\* The entry's timestamp lies outside [start_time, end_time).
OutsideWindow(e) == HasTimestamp(e) /\ (e.dt.t < start_time \/ e.dt.t >= end_time)

\* The entry's timestamp is a string that cannot be parsed.
Unparseable(e) == e.dt.kind \in {"str_garbage", "str_invalid"}

\* The entry has no timestamp or no primary temperature.
Malformed(e) == e.dt.kind = "none" \/ e.temperature = None

\* fd with e put in front of position k (k = Len(fd) + 1 appends).
InsertAt(fd, k, e) == SubSeq(fd, 1, k - 1) \o <<e>> \o SubSeq(fd, k, Len(fd))

\* Twice the one-sided deviation of the entry's representative temperature:
\* the mean of temperature and templow when templow is present.
TwiceDeviation(fn, e) ==
    LET twice_rep == IF e.templow = None THEN e.temperature[1] + e.temperature[1]
                     ELSE e.temperature[1] + e.templow[1]
    IN  IF fn = "calculate_hdd_from_forecast"
        THEN (IF 2 * base_temp > twice_rep THEN 2 * base_temp - twice_rep ELSE 0)
        ELSE (IF twice_rep > 2 * base_temp THEN twice_rep - 2 * base_temp ELSE 0)

\* One term per entry: twice its deviation when it lies in the window and has
\* a primary temperature, else 0.
ForecastTerms(fn, fd) ==
    [i \in 1..Len(fd) |->
        IF InWindow(fd[i]) /\ fd[i].temperature # None
        THEN TwiceDeviation(fn, fd[i]) ELSE 0]

\* ---------------------------------------------------------- forecast claims

\* C11: forecast-window filtering: an entry counts only if
\* window_start <= timestamp < window_end (one at window_start counts, one at
\* window_end does not); adding or removing entries outside the window never
\* changes the result; with no entry in the window the result is 0.0.
C11_WindowFiltering ==
    (called \in ForecastCalls) =>
        LET NotOutside(e) == ~OutsideWindow(e)
        IN  /\ Outcome = ForecastResult(called, SelectSeq(forecast_data, NotOutside))
            /\ \A e \in {x \in ForecastEntry : OutsideWindow(x)} :
                  \A k \in 1..(Len(forecast_data) + 1) :
                      ForecastResult(called, InsertAt(forecast_data, k, e)) = Outcome
            /\ (\A i \in 1..Len(forecast_data) : ~InWindow(forecast_data[i]))
                  => (~raised /\ ret = 0)
            /\ (Len(forecast_data) = 1 /\ HasTimestamp(forecast_data[1])
                   /\ forecast_data[1].temperature # None)
                  => (/\ ~raised
                      /\ ret = IF InWindow(forecast_data[1])
                               THEN RoundHalfEven(10 * TwiceDeviation(called, forecast_data[1]),
                                                  2 * 24)
                               ELSE 0)

\* C12: calculate_hdd_from_forecast returns the 1-decimal rounding of the
\* sum, over the entries inside the window that have a primary temperature,
\* of max(0, base - rep) / 24, rep being the mean of temperature and templow
\* when templow is present and the temperature otherwise; every counted entry
\* weighs one hour.  calculate_cdd_from_forecast: the same with max(0, rep - base).
C12_ForecastSum ==
    (called \in ForecastCalls) =>
        /\ ~raised
        /\ ret = RoundHalfEven(10 * SeqSum(ForecastTerms(called, forecast_data)), 2 * 24)

\* C13: an entry without a timestamp or without a primary temperature is
\* skipped without raising: the result is the result for the same list with
\* such entries removed, wherever they occur.
C13_MalformedSkipped ==
    (called \in ForecastCalls) =>
        LET WellFormed(e) == ~Malformed(e)
        IN  Outcome = ForecastResult(called, SelectSeq(forecast_data, WellFormed))

\* C14: an entry whose timestamp is a string that cannot be parsed is skipped:
\* no exception leaves the function and the remaining entries are counted,
\* whether the parser raises ValueError or returns None.
C14_UnparseableSkipped ==
    (called \in ForecastCalls) =>
        LET Parseable(e) == ~Unparseable(e)
        IN  /\ ~raised
            /\ Outcome = ForecastResult(called, SelectSeq(forecast_data, Parseable))


\* ------------------------------------------------------------ history claims

\* The string denotes a number: an optional minus sign, then decimal digits
\* with at most one point among them and at least one digit.
IsNumeric(s) ==
    LET body == IF s # <<>> /\ s[1] = "-" THEN Tail(s) ELSE s
    IN  /\ \E i \in 1..Len(body) : body[i] \in DecimalDigit
        /\ \A i \in 1..Len(body) : body[i] \in DecimalDigit \cup {"."}
        /\ Cardinality({i \in 1..Len(body) : body[i] = "."}) <= 1

\* The number a numeric string denotes, in tenths.
NumericTenths(s) ==
    IF s[1] = "-" THEN 0 - float_tenths(Tail(s)) ELSE float_tenths(s)

\* C18: get_temperature_readings returns one (last_updated, float(value))
\* reading for every history state whose value is numeric, negative values
\* and integer-valued strings included, in history order, and drops exactly
\* the states whose value is 'unknown', 'unavailable' or non-numeric; when the
\* lookup fails or has no entry for the entity it returns an empty list.
C18_HistoryReadings ==
    (called = "get_temperature_readings") =>
        IF temp_history.kind = "found"
        THEN LET StateIsNumeric(st) == IsNumeric(st.state)
                 numeric == SelectSeq(temp_history.states, StateIsNumeric)
             IN  history_ret = [i \in 1..Len(numeric) |->
                                   <<numeric[i].last_updated, NumericTenths(numeric[i].state)>>]
        ELSE history_ret = <<>>


\* -------------------------------------------------------- coordinator claims

\* Whether the options enable a daily, weekly or monthly sensor type.
SensorEnabled ==
    [k \in {"SENSOR_TYPE_HDD_DAILY", "SENSOR_TYPE_HDD_WEEKLY", "SENSOR_TYPE_HDD_MONTHLY",
            "SENSOR_TYPE_CDD_DAILY", "SENSOR_TYPE_CDD_WEEKLY", "SENSOR_TYPE_CDD_MONTHLY"} |->
        CASE k = "SENSOR_TYPE_HDD_DAILY" -> TRUE
          [] k = "SENSOR_TYPE_HDD_WEEKLY" -> include_weekly
          [] k = "SENSOR_TYPE_HDD_MONTHLY" -> include_monthly
          [] k = "SENSOR_TYPE_CDD_DAILY" -> include_cooling
          [] k = "SENSOR_TYPE_CDD_WEEKLY" -> include_cooling /\ include_weekly
          [] k = "SENSOR_TYPE_CDD_MONTHLY" -> include_cooling /\ include_monthly]

\* The step is an update that found no readings for yesterday.
UpdateWithoutReadings == called' = "_async_update_data" /\ daily_readings' = <<>>

\* The step is an update that found readings for yesterday.
UpdateWithReadings == called' = "_async_update_data" /\ daily_readings' # <<>>

\* C19: an update that finds no temperature readings for yesterday returns
\* the previously published data unchanged if there is any, and otherwise a
\* result holding 0 for every enabled daily/weekly/monthly sensor type; in
\* both cases daily_hdd_values, daily_cdd_values, temperature_history and the
\* store are left unchanged.
C19_NoReadingsUpdate ==
    [][UpdateWithoutReadings =>
          /\ data # None => data' = data
          /\ data = None =>
                /\ data' # None
                /\ DOMAIN data'[1] = {k \in DOMAIN SensorEnabled : SensorEnabled[k]}
                /\ \A k \in DOMAIN data'[1] : data'[1][k] = 0
          /\ UNCHANGED <<daily_hdd_values, daily_cdd_values, temperature_history, store>>
      ]_vars

\* An update found no readings while data with a heating value was
\* published and daily values were held: the data is still the published one.
C19_Witness ==
    /\ called = "_async_update_data"
    /\ daily_readings = <<>>
    /\ data # None
    /\ data[1]["SENSOR_TYPE_HDD_DAILY"] > 0
    /\ temperature_history # <<>>
    /\ DOMAIN daily_hdd_values # {}

RECURSIVE StoredSum(_, _)
StoredSum(mapping, dates) ==
    IF dates = {} THEN 0
    ELSE LET d == CHOOSE x \in dates : TRUE
         IN  (IF d \in DOMAIN mapping THEN mapping[d] ELSE 0)
             + StoredSum(mapping, dates \ {d})

\* The seven dates Monday to Sunday of the week containing the date (day 0
\* is a Monday), and the dates of its calendar month.
WeekContaining(date) == {d \in (date - 6)..(date + 6) : d \div 7 = date \div 7}

MonthContaining(date) == {d \in (date - 31)..(date + 31) : d >= 0 /\ MonthOf(d) = MonthOf(date)}

\* The step is an update that found readings and published its result.
PublishedWithReadings == UpdateWithReadings /\ ~raised'

\* C21: in every update that found readings the published weekly HDD (CDD)
\* is the sum of the stored daily values for Monday to Sunday of the week
\* containing yesterday, the published monthly HDD (CDD) the sum for all
\* dates of yesterday's calendar month, dates without a stored value
\* counting as 0; both include the daily value computed in that update.
C21_WeeklyMonthlySums ==
    [][PublishedWithReadings =>
          LET yesterday == now_day - 1
              result == data'[1]
              Sums(daily, weekly, monthly, values) ==
                  /\ daily \in DOMAIN result
                  /\ yesterday \in DOMAIN values
                  /\ values[yesterday] = result[daily]
                  /\ weekly \in DOMAIN result <=> include_weekly
                  /\ include_weekly =>
                        result[weekly] = StoredSum(values, WeekContaining(yesterday))
                  /\ monthly \in DOMAIN result <=> include_monthly
                  /\ include_monthly =>
                        result[monthly] = StoredSum(values, MonthContaining(yesterday))
          IN  /\ Sums("SENSOR_TYPE_HDD_DAILY", "SENSOR_TYPE_HDD_WEEKLY",
                      "SENSOR_TYPE_HDD_MONTHLY", daily_hdd_values')
              /\ include_cooling =>
                    Sums("SENSOR_TYPE_CDD_DAILY", "SENSOR_TYPE_CDD_WEEKLY",
                         "SENSOR_TYPE_CDD_MONTHLY", daily_cdd_values')
      ]_vars

\* An update on a Monday's morrow published a week holding yesterday only
\* and a month holding earlier days as well.
C21_Witness ==
    /\ called = "_async_update_data"
    /\ daily_readings # <<>>
    /\ ~raised
    /\ include_weekly /\ include_monthly /\ include_cooling
    /\ data # None
    /\ data[1]["SENSOR_TYPE_HDD_DAILY"] > 0
    /\ now_day - 1 \in DOMAIN daily_hdd_values
    /\ data[1]["SENSOR_TYPE_HDD_WEEKLY"] = daily_hdd_values[now_day - 1]
    /\ data[1]["SENSOR_TYPE_HDD_MONTHLY"] > data[1]["SENSOR_TYPE_HDD_WEEKLY"]
    /\ data[1]["SENSOR_TYPE_CDD_MONTHLY"] > data[1]["SENSOR_TYPE_CDD_WEEKLY"]


\* What claim C22 says of the estimate keys of a result, given what the
\* update read: with a forecast the four estimates are the returned values of
\* the blend over [now, next midnight) and of the forecast integration
\* over [next midnight, the midnight after); without one they are None.
EstimatesAsClaimed(result) ==
    LET today_readings == InDegrees(update_today')
        hdd_today == combine_actual_and_forecast_hdd(
                         today_readings, update_forecast', base_temp, update_now',
                         MidnightTime)
        cdd_today == combine_actual_and_forecast_cdd(
                         today_readings, update_forecast', base_temp, update_now',
                         MidnightTime)
        hdd_tomorrow == calculate_hdd_from_forecast(
                            update_forecast', base_temp, MidnightTime, 2 * MidnightTime)
        cdd_tomorrow == calculate_cdd_from_forecast(
                            update_forecast', base_temp, MidnightTime, 2 * MidnightTime)
        Carries(key, outcome) ==
            /\ key \in DOMAIN result
            /\ IF update_forecast' = <<>> THEN result[key] = None
               ELSE ~outcome.raised /\ result[key] = Some(outcome.value)
    IN  /\ Carries("SENSOR_TYPE_HDD_ESTIMATED_TODAY", hdd_today)
        /\ Carries("SENSOR_TYPE_HDD_ESTIMATED_TOMORROW", hdd_tomorrow)
        /\ IF include_cooling
           THEN /\ Carries("SENSOR_TYPE_CDD_ESTIMATED_TODAY", cdd_today)
                /\ Carries("SENSOR_TYPE_CDD_ESTIMATED_TOMORROW", cdd_tomorrow)
           ELSE {"SENSOR_TYPE_CDD_ESTIMATED_TODAY", "SENSOR_TYPE_CDD_ESTIMATED_TOMORROW"}
                    \cap DOMAIN result = {}

AllEstimateKeys ==
    {"SENSOR_TYPE_HDD_ESTIMATED_TODAY", "SENSOR_TYPE_HDD_ESTIMATED_TOMORROW",
     "SENSOR_TYPE_CDD_ESTIMATED_TODAY", "SENSOR_TYPE_CDD_ESTIMATED_TOMORROW"}

\* C22: every update that found readings yields a result whose estimate keys
\* are as follows. With a weather entity and a forecast obtained, the
\* estimated-today HDD is combine_actual_and_forecast_hdd(today's readings,
\* forecast, base, now, next midnight) and the estimated-tomorrow HDD is
\* calculate_hdd_from_forecast over [next midnight, the midnight after); with
\* a weather entity and no forecast the keys are present with None; with no
\* weather entity they are absent; the CDD keys appear only with cooling.
C22_ForecastEstimates ==
    [][UpdateWithReadings =>
        /\ ~raised'
        /\ data' # None
        /\ IF weather_entity
           THEN EstimatesAsClaimed(data'[1])
           ELSE AllEstimateKeys \cap DOMAIN data'[1] = {}]_vars

\* C23: after an update that found readings and in which the weather entity's
\* state lacks the hourly-forecast feature, the repair issue exists; after
\* one in which the hourly forecast was fetched (a non-empty list came back),
\* or in which no weather entity is configured, the issue does not exist.
C23_IssueLifecycle ==
    [][UpdateWithReadings =>
        /\ (weather_entity /\ update_weather'.kind = "no_feature") => issue'
        /\ (weather_entity /\ update_weather'.kind = "forecast"
                /\ update_weather'.forecast_returned) => ~issue'
        /\ ~weather_entity => ~issue']_vars

\* An update fetched the forecast while the issue existed, and deleted it.
C23_Witness ==
    /\ called = "_async_update_data"
    /\ daily_readings # <<>>
    /\ weather_entity
    /\ update_weather.kind = "forecast"
    /\ update_weather.forecast_returned
    /\ update_weather.issue_before
    /\ ~issue


\* ------------------------------------------------- entities and config entries

\* WeatherEntityFeature.FORECAST_HOURLY, and the test `features & flag`.
FORECAST_HOURLY == 2

HasFeature(features, flag) == (features \div flag) % 2 = 1

\* Entity ids, as <<domain, object_id>> for "domain.object_id".
WeatherHourly == <<"weather", "hourly">>
WeatherDaily == <<"weather", "daily">>
WeatherGone == <<"weather", "gone">>
SensorOutdoor == <<"sensor", "outdoor">>
SensorGone == <<"sensor", "gone">>

EntityIds == {WeatherHourly, WeatherDaily, WeatherGone, SensorOutdoor, SensorGone}

\* entity_id.startswith("weather.")
startswith_weather(entity_id) == entity_id[1] = "weather"

\* hass.states: the entities that have a state, with the supported_features
\* attribute of each (1 daily forecasts, 2 hourly forecasts; the sensor's
\* feature bits happen to include 2).
HassStates ==
    (WeatherHourly :> [supported_features |-> 3])
    @@ (WeatherDaily :> [supported_features |-> 1])
    @@ (SensorOutdoor :> [supported_features |-> 2])

\* dict.get(key): None when the key is absent.
Get(mapping, key) == IF key \in DOMAIN mapping THEN Some(mapping[key]) ELSE None

\* A dict without a key (dict.pop(key, None) on a copy).
Without(mapping, key) == [k \in DOMAIN mapping \ {key} |-> mapping[k]]

\* The data of a config entry with the given weather entity (None for none).
EntryData(weather) ==
    LET required == [k \in {"CONF_TEMPERATURE_SENSOR"} |-> SensorOutdoor]
    IN  IF weather = None THEN required ELSE Put(required, "CONF_WEATHER_ENTITY", weather[1])

\* What a flow step returns.
async_show_form(step_id, errors) ==
    [type |-> "form", step_id |-> step_id, errors |-> errors, reason |-> ""]

async_abort(reason) ==
    [type |-> "abort", step_id |-> "", errors |-> EmptyMap, reason |-> reason]

async_create_entry ==
    [type |-> "create_entry", step_id |-> "", errors |-> EmptyMap, reason |-> ""]

NoErrors == EmptyMap

BaseError(error) == [k \in {"base"} |-> error]

\* What the first refresh of a set-up entry meets: no readings for yesterday,
\* readings but no forecast returned, or readings and a forecast.
FirstRefresh == {"no_readings", "no_forecast", "forecast"}

\* hass.config_entries.async_reload(entry_id): the entry is set up again with
\* its current data, and the first refresh of the new coordinator leaves the
\* issue registry as an update does.
reload_issue(entry_data, issue_before, refresh) ==
    LET weather == Get(entry_data, "CONF_WEATHER_ENTITY")
    IN  IF refresh = "no_readings" THEN issue_before
        ELSE IF weather = None THEN FALSE
        ELSE IF weather[1] \notin DOMAIN HassStates THEN issue_before
        ELSE IF ~HasFeature(HassStates[weather[1]].supported_features, FORECAST_HOURLY)
             THEN TRUE
        ELSE IF refresh = "forecast" THEN FALSE
        ELSE issue_before

\* --------------------------------------------------------------- repairs.py

\* WeatherEntityRepairFlow._validate_weather_entity
repair_validate_weather_entity(entity_id) ==
    /\ entity_id \in DOMAIN HassStates
    /\ startswith_weather(entity_id)
    /\ HasFeature(HassStates[entity_id].supported_features, FORECAST_HOURLY)

\* The outcome of a step: its result and what it made of the entries, the
\* issue and the loaded integrations.
StepOutcome(result, new_entries, new_issue, new_loaded) ==
    [result |-> result, entries |-> new_entries, issue |-> new_issue, loaded |-> new_loaded]

Unchanged(result) == StepOutcome(result, entries, issue, loaded)

\* The entry updated with new data, the issue deleted, the entry reloaded.
UpdatedAndReloaded(entry_id, new_data, refresh) ==
    StepOutcome(async_create_entry,
            [entries EXCEPT ![entry_id] = new_data],
            reload_issue(new_data, FALSE, refresh),
            Put(loaded, entry_id, new_data))

\* Faulty variant: accepts any weather entity that has a state.
select_weather_Unvalidated(user_input, refresh) == IF user_input = None THEN Unchanged(async_show_form("select_weather", NoErrors)) ELSE LET w == Get(user_input[1], "CONF_WEATHER_ENTITY") IN IF w # None /\ w[1] \in DOMAIN HassStates /\ flow.entry_id[1] \in DOMAIN entries THEN UpdatedAndReloaded(flow.entry_id[1], Put(entries[flow.entry_id[1]], "CONF_WEATHER_ENTITY", w[1]), refresh) ELSE Unchanged(async_show_form("select_weather", BaseError("invalid_weather_entity")))

\* async_step_select_weather(user_input)
select_weather(user_input, refresh) ==
    IF user_input = None
    THEN Unchanged(async_show_form("select_weather", NoErrors))
    ELSE LET new_weather_entity == Get(user_input[1], "CONF_WEATHER_ENTITY")
             entry_id == flow.entry_id[1]
         IN  IF /\ new_weather_entity # None
                /\ repair_validate_weather_entity(new_weather_entity[1])
             THEN IF entry_id \in DOMAIN entries
                  THEN UpdatedAndReloaded(
                           entry_id,
                           Put(entries[entry_id], "CONF_WEATHER_ENTITY",
                               new_weather_entity[1]),
                           refresh)
                  ELSE Unchanged(async_abort("entry_not_found"))
             ELSE Unchanged(async_show_form("select_weather",
                                            BaseError("invalid_weather_entity")))

\* async_step_confirm_remove(user_input)
confirm_remove(user_input, refresh) ==
    IF user_input = None
    THEN Unchanged(async_show_form("confirm_remove", NoErrors))
    ELSE LET entry_id == flow.entry_id[1]
         IN  IF entry_id \in DOMAIN entries
             THEN UpdatedAndReloaded(
                      entry_id, Without(entries[entry_id], "CONF_WEATHER_ENTITY"), refresh)
             ELSE Unchanged(async_abort("entry_not_found"))

\* async_step_init(user_input)
step_init(user_input, refresh) ==
    IF flow.entry_id = None \/ flow.entry_id = Some("")
    THEN Unchanged(async_abort("no_entry_id"))
    ELSE IF flow.entry_id[1] \notin DOMAIN entries
    THEN Unchanged(async_abort("entry_not_found"))
    ELSE LET action == IF user_input = None THEN None ELSE Get(user_input[1], "action")
         IN  IF action = Some("select_new") THEN select_weather(None, refresh)
             ELSE IF action = Some("remove") THEN confirm_remove(None, refresh)
             ELSE Unchanged(async_show_form("init", NoErrors))

\* What the issue's data can be when a fix flow is created for it.
EntryOne == "entry_1"
EntryTwo == "entry_2"
EntryGone == "entry_gone"

IssueData ==
    {None, Some([k \in {"entity_id"} |-> WeatherDaily])}
    \cup {Some([k \in {"entry_id", "entity_id"} |->
                 IF k = "entry_id" THEN id ELSE WeatherDaily]) :
            id \in {"", EntryOne, EntryGone}}

\* What flow steps leave alone.
flow_frame ==
    <<readings, base_temp, forecast_data, start_time, end_time, arg_readings,
      raised, ret, history_vars, coordinator_state, registry, migrating>>

\* The config entries of an installation whose first entry raised the issue.
InitRepairs ==
    /\ readings = <<>>
    /\ base_temp = 18
    /\ forecast_data = <<>>
    /\ start_time = NoonTime
    /\ end_time = MidnightTime
    /\ called = "none"
    /\ arg_readings = <<>>
    /\ raised = FALSE
    /\ ret = 0
    /\ HistoryIdle
    /\ include_cooling = FALSE
    /\ include_weekly = FALSE
    /\ include_monthly = FALSE
    /\ weather_entity = TRUE
    /\ data = None
    /\ temperature_history = <<>>
    /\ daily_hdd_values = EmptyMap
    /\ daily_cdd_values = EmptyMap
    /\ store = <<>>
    /\ now_day = FirstDay
    /\ daily_readings = <<>>
    /\ update_now = 0
    /\ update_forecast = <<>>
    /\ update_today = <<>>
    /\ update_weather = NotAsked
    /\ issue = TRUE
    /\ \E first \in {Some(WeatherDaily), Some(SensorOutdoor)},
          second \in {None, Some(WeatherHourly)} :
            entries = (EntryOne :> EntryData(first)) @@ (EntryTwo :> EntryData(second))
    /\ loaded = entries
    /\ flow = NoFlow
    /\ registry = EmptyMap
    /\ migrating = None

\* async_create_fix_flow(hass, issue_id, data) and the flow's __init__.
AsyncCreateFixFlow ==
    /\ flow.handler = "none"
    /\ issue
    /\ called' = "async_create_fix_flow"
    /\ \E issue_data \in IssueData :
        flow' = [handler |-> "repairs",
                 entry_id |-> IF issue_data = None THEN None
                              ELSE Get(issue_data[1], "entry_id"),
                 step |-> "init",
                 user_input |-> None,
                 result |-> None]
    /\ UNCHANGED <<flow_frame, issue, entries, loaded>>

\* A step of the flow has run: its outcome becomes the state, and the flow
\* waits for the form it showed or is over.
FlowStepped(user_input, outcome) ==
    /\ flow' = [flow EXCEPT !.user_input = user_input,
                            !.result = Some(outcome.result),
                            !.step = IF outcome.result.type = "form"
                                     THEN outcome.result.step_id ELSE "done"]
    /\ entries' = outcome.entries
    /\ issue' = outcome.issue
    /\ loaded' = outcome.loaded
    /\ UNCHANGED flow_frame

\* The forms a user can submit: an action in step init, an entity or nothing
\* in step select_weather, nothing in step confirm_remove.
Submitted(fields) == Some(fields)

InitInputs ==
    {Submitted([k \in {"action"} |-> a]) : a \in {"select_new", "remove"}}

SelectWeatherInputs ==
    {Submitted(EmptyMap)}
    \cup {Submitted([k \in {"CONF_WEATHER_ENTITY"} |-> e]) : e \in EntityIds}

AsyncStepInit ==
    /\ flow.handler = "repairs"
    /\ flow.step = "init"
    /\ called' = "async_step_init"
    /\ \E user_input \in (IF flow.result = None THEN {None} ELSE InitInputs),
          refresh \in {"no_readings"} :
        FlowStepped(user_input, step_init(user_input, refresh))

AsyncStepSelectWeather ==
    /\ flow.handler = "repairs"
    /\ flow.step = "select_weather"
    /\ called' = "async_step_select_weather"
    /\ \E user_input \in SelectWeatherInputs, refresh \in FirstRefresh :
        FlowStepped(user_input, select_weather(user_input, refresh))

AsyncStepConfirmRemove ==
    /\ flow.handler = "repairs"
    /\ flow.step = "confirm_remove"
    /\ called' = "async_step_confirm_remove"
    /\ \E refresh \in FirstRefresh :
        FlowStepped(Submitted(EmptyMap), confirm_remove(Submitted(EmptyMap), refresh))

\* The user removes a config entry while the flow is open.
RemoveEntry ==
    /\ flow.handler = "repairs"
    /\ flow.step # "done"
    /\ called' = "async_remove"
    /\ \E entry_id \in DOMAIN entries :
        /\ entries' = Without(entries, entry_id)
        /\ loaded' = Without(loaded, entry_id)
    /\ UNCHANGED <<flow_frame, issue, flow>>

NextRepairs ==
    \/ AsyncCreateFixFlow
    \/ AsyncStepInit
    \/ AsyncStepSelectWeather
    \/ AsyncStepConfirmRemove
    \/ RemoveEntry

SpecRepairs == InitRepairs /\ [][NextRepairs]_vars


\* ------------------------------------------------------- repair flow claims

RepairSteps ==
    {"async_step_init", "async_step_select_weather", "async_step_confirm_remove"}

\* The weather entity of an entry's data (None when it has none).
WeatherOf(entry_data) == Get(entry_data, "CONF_WEATHER_ENTITY")

\* The entity submitted in the step just taken (None when the field was empty).
SubmittedWeather == Get(flow'.user_input[1], "CONF_WEATHER_ENTITY")

\* The submitted entity has a state, an id starting with "weather." and
\* supports hourly forecasts.
AcceptableSelection ==
    /\ SubmittedWeather # None
    /\ SubmittedWeather[1] \in DOMAIN HassStates
    /\ SubmittedWeather[1][1] = "weather"
    /\ HassStates[SubmittedWeather[1]].supported_features \in {2, 3}

\* The step just taken finished the flow after deleting the issue and
\* reloading the entry with its new data.
RepairedAndReloaded(entry_id) ==
    /\ ~issue'
    /\ entry_id \in DOMAIN loaded'
    /\ loaded'[entry_id] = entries'[entry_id]
    /\ flow'.result = Some(async_create_entry)
    /\ flow'.step = "done"

\* C24: a step of the weather repair flow changes the weather entity of a
\* config entry only (a) when an entity that has a state, an id starting
\* with "weather." and hourly forecasts is submitted in step select_weather,
\* or (b) when step confirm_remove is submitted; in both cases the issue is
\* deleted and the entry reloaded when the flow finishes. Any other
\* selection shows select_weather again with the error
\* invalid_weather_entity and leaves entries and issue as they were; a flow
\* without entry_id or with an unknown entry aborts and changes nothing.
C24_RepairFlow ==
    [][called' \in RepairSteps =>
        /\ \A id \in DOMAIN entries :
              (id \notin DOMAIN entries' \/ WeatherOf(entries'[id]) # WeatherOf(entries[id]))
              => /\ flow.entry_id = Some(id)
                 /\ id \in DOMAIN entries'
                 /\ \/ /\ called' = "async_step_select_weather"
                       /\ AcceptableSelection
                       /\ WeatherOf(entries'[id]) = SubmittedWeather
                    \/ /\ called' = "async_step_confirm_remove"
                       /\ WeatherOf(entries'[id]) = None
        /\ DOMAIN entries' = DOMAIN entries
        /\ entries' # entries => RepairedAndReloaded(flow.entry_id[1])
        /\ (/\ called' = "async_step_select_weather"
            /\ AcceptableSelection
            /\ flow.entry_id[1] \in DOMAIN entries)
           => /\ entries' = [entries EXCEPT ![flow.entry_id[1]] =
                                Put(@, "CONF_WEATHER_ENTITY", SubmittedWeather[1])]
              /\ RepairedAndReloaded(flow.entry_id[1])
        /\ (/\ called' = "async_step_confirm_remove"
            /\ flow.entry_id[1] \in DOMAIN entries)
           => /\ entries' = [entries EXCEPT ![flow.entry_id[1]] =
                                Without(@, "CONF_WEATHER_ENTITY")]
              /\ RepairedAndReloaded(flow.entry_id[1])
        /\ (called' = "async_step_select_weather" /\ ~AcceptableSelection)
           => /\ flow'.result = Some(async_show_form(
                                        "select_weather",
                                        BaseError("invalid_weather_entity")))
              /\ flow'.step = "select_weather"
              /\ UNCHANGED <<entries, issue, loaded>>
        /\ (/\ called' = "async_step_init"
            /\ \/ flow.entry_id \in {None, Some("")}
               \/ flow.entry_id[1] \notin DOMAIN entries)
           => /\ flow'.result # None
              /\ flow'.result[1].type = "abort"
              /\ flow'.step = "done"
              /\ UNCHANGED <<entries, issue, loaded>>]_vars

\* A valid entity was submitted in step select_weather: the entry carries
\* it, the issue is gone, the entry is reloaded and the flow is finished.
C24_Witness ==
    /\ called = "async_step_select_weather"
    /\ flow.handler = "repairs"
    /\ flow.entry_id = Some(EntryOne)
    /\ flow.user_input = Submitted([k \in {"CONF_WEATHER_ENTITY"} |-> WeatherHourly])
    /\ flow.result = Some(async_create_entry)
    /\ EntryOne \in DOMAIN entries
    /\ entries[EntryOne] = EntryData(Some(WeatherHourly))
    /\ loaded[EntryOne] = entries[EntryOne]
    /\ ~issue


\* ----------------------------------------------------------- config_flow.py

\* HDDConfigFlow._validate_sensor: the entity has a state (an unexpected
\* device class is only logged).
validate_sensor(entity_id) == entity_id \in DOMAIN HassStates

\* Faulty variant: any weather entity that has a state is accepted.
validate_weather_entity_AnyWeather(entity_id) == entity_id \in DOMAIN HassStates /\ startswith_weather(entity_id)

\* HDDConfigFlow._validate_weather_entity
validate_weather_entity(entity_id) ==
    /\ entity_id \in DOMAIN HassStates
    /\ startswith_weather(entity_id)
    /\ HasFeature(HassStates[entity_id].supported_features, FORECAST_HOURLY)

\* The errors dict both steps build from a submitted form.
form_errors(user_input) ==
    IF /\ "CONF_WEATHER_ENTITY" \in DOMAIN user_input
       /\ ~validate_weather_entity(user_input["CONF_WEATHER_ENTITY"])
    THEN BaseError("invalid_weather_entity")
    ELSE IF ~validate_sensor(user_input["CONF_TEMPERATURE_SENSOR"])
    THEN BaseError("invalid_temperature_sensor")
    ELSE NoErrors

\* hass.config.units.temperature_unit
TemperatureUnit == "celsius"

\* The data of the entry: the submitted form with the temperature unit set.
with_temperature_unit(user_input) == Put(user_input, "CONF_TEMPERATURE_UNIT", TemperatureUnit)

\* The forms a user can submit in steps user and reconfigure.
FormFields(sensor, cooling, weather) ==
    LET required == [k \in {"CONF_TEMPERATURE_SENSOR", "CONF_BASE_TEMPERATURE",
                            "CONF_INCLUDE_COOLING", "CONF_INCLUDE_WEEKLY",
                            "CONF_INCLUDE_MONTHLY"} |->
                        CASE k = "CONF_TEMPERATURE_SENSOR" -> sensor
                          [] k = "CONF_BASE_TEMPERATURE" -> 18
                          [] k = "CONF_INCLUDE_COOLING" -> cooling
                          [] OTHER -> TRUE]
    IN  IF weather = None THEN required ELSE Put(required, "CONF_WEATHER_ENTITY", weather[1])

ConfigInputs ==
    {Submitted(FormFields(sensor, cooling, weather)) :
        sensor \in {SensorOutdoor, SensorGone},
        cooling \in BOOLEAN,
        weather \in {None} \cup {Some(e) : e \in EntityIds}}

\* async_step_user(user_input); the entry the flow manager makes of a
\* create_entry result gets the id new_id and is set up.
step_user(user_input, new_id, refresh) ==
    IF user_input # None /\ form_errors(user_input[1]) = NoErrors
    THEN LET entry_data == with_temperature_unit(user_input[1])
         IN  StepOutcome(async_create_entry,
                         Put(entries, new_id, entry_data),
                         reload_issue(entry_data, issue, refresh),
                         Put(loaded, new_id, entry_data))
    ELSE Unchanged(async_show_form("user", IF user_input = None THEN NoErrors
                                           ELSE form_errors(user_input[1])))

\* async_step_reconfigure(user_input), the entry id taken from the context.
step_reconfigure(user_input, refresh) ==
    IF flow.entry_id \in {None, Some("")} \/ flow.entry_id[1] \notin DOMAIN entries
    THEN Unchanged(async_abort("entry_not_found"))
    ELSE IF user_input # None /\ form_errors(user_input[1]) = NoErrors
    THEN LET entry_data == with_temperature_unit(user_input[1])
             entry_id == flow.entry_id[1]
         IN  StepOutcome(async_abort("reconfigure_successful"),
                         [entries EXCEPT ![entry_id] = entry_data],
                         reload_issue(entry_data, issue, refresh),
                         Put(loaded, entry_id, entry_data))
    ELSE Unchanged(async_show_form("reconfigure",
                                   IF user_input = None THEN NoErrors
                                   ELSE form_errors(user_input[1])))

\* An installation with no entry or one, and no flow open.
InitConfigFlow ==
    /\ readings = <<>>
    /\ base_temp = 18
    /\ forecast_data = <<>>
    /\ start_time = NoonTime
    /\ end_time = MidnightTime
    /\ called = "none"
    /\ arg_readings = <<>>
    /\ raised = FALSE
    /\ ret = 0
    /\ HistoryIdle
    /\ include_cooling = FALSE
    /\ include_weekly = FALSE
    /\ include_monthly = FALSE
    /\ weather_entity = FALSE
    /\ data = None
    /\ temperature_history = <<>>
    /\ daily_hdd_values = EmptyMap
    /\ daily_cdd_values = EmptyMap
    /\ store = <<>>
    /\ now_day = FirstDay
    /\ daily_readings = <<>>
    /\ update_now = 0
    /\ update_forecast = <<>>
    /\ update_today = <<>>
    /\ update_weather = NotAsked
    /\ issue = FALSE
    /\ entries \in {EmptyMap, EntryOne :> EntryData(Some(WeatherHourly))}
    /\ loaded = entries
    /\ flow = NoFlow
    /\ registry = EmptyMap
    /\ migrating = None

\* The user starts a config flow, the first or one after another has ended:
\* a new entry, or the reconfiguration of the entry named in the flow's context.
StartConfigFlow ==
    /\ flow.handler = "none" \/ flow.step = "done"
    /\ called' = "async_init"
    /\ \E started \in {[step |-> "user", entry_id |-> None]}
                      \cup {[step |-> "reconfigure", entry_id |-> id] :
                              id \in {None, Some(EntryOne), Some(EntryGone)}} :
        flow' = [handler |-> "config",
                 entry_id |-> started.entry_id,
                 step |-> started.step,
                 user_input |-> None,
                 result |-> None]
    /\ UNCHANGED <<flow_frame, issue, entries, loaded>>

AsyncStepUser ==
    /\ flow.handler = "config"
    /\ flow.step = "user"
    /\ called' = "async_step_user"
    /\ \E user_input \in (IF flow.result = None THEN {None} ELSE ConfigInputs),
          new_id \in {EntryOne, EntryTwo} \ DOMAIN entries,
          refresh \in FirstRefresh :
        FlowStepped(user_input, step_user(user_input, new_id, refresh))

AsyncStepReconfigure ==
    /\ flow.handler = "config"
    /\ flow.step = "reconfigure"
    /\ called' = "async_step_reconfigure"
    /\ \E user_input \in (IF flow.result = None THEN {None} ELSE ConfigInputs),
          refresh \in FirstRefresh :
        FlowStepped(user_input, step_reconfigure(user_input, refresh))

NextConfigFlow ==
    \/ StartConfigFlow
    \/ AsyncStepUser
    \/ AsyncStepReconfigure

SpecConfigFlow == InitConfigFlow /\ [][NextConfigFlow]_vars


\* ------------------------------------------------------- config flow claims

ConfigSteps == {"async_step_user", "async_step_reconfigure"}

\* The form submitted in the step just taken names a temperature sensor that
\* has a state and, if it names a weather entity, one that has a state, an
\* id starting with "weather." and hourly forecasts.
SubmittedFormValid ==
    LET fields == flow'.user_input[1]
        weather == Get(fields, "CONF_WEATHER_ENTITY")
    IN  /\ fields["CONF_TEMPERATURE_SENSOR"] \in DOMAIN HassStates
        /\ weather # None =>
              /\ weather[1] \in DOMAIN HassStates
              /\ weather[1][1] = "weather"
              /\ HassStates[weather[1]].supported_features \in {2, 3}

\* The step just taken showed the form of the step again, with an error, and
\* touched no entry.
ShownAgainWithError(step_id) ==
    /\ flow'.result # None
    /\ flow'.result[1].type = "form"
    /\ flow'.result[1].step_id = step_id
    /\ flow'.result[1].errors # NoErrors
    /\ flow'.step = step_id
    /\ UNCHANGED <<entries, loaded>>

\* C25: step user creates an entry, and step reconfigure updates and
\* reloads the entry, exactly when the submitted temperature sensor has a
\* state and the weather entity, if given, has a state, an id starting with
\* "weather." and hourly forecasts; otherwise the form is shown again with
\* an error and no entry is created or modified.
C25_ConfigFlow ==
    [][called' \in ConfigSteps =>
        /\ entries' # entries => flow'.user_input # None /\ SubmittedFormValid
        /\ (called' = "async_step_user" /\ flow'.user_input # None)
           => IF SubmittedFormValid
              THEN /\ flow'.result = Some(async_create_entry)
                   /\ \E id \in DOMAIN entries' \ DOMAIN entries :
                        /\ entries' = Put(entries, id,
                                          Put(flow'.user_input[1],
                                              "CONF_TEMPERATURE_UNIT", TemperatureUnit))
                        /\ loaded' = Put(loaded, id, entries'[id])
              ELSE ShownAgainWithError("user")
        /\ (/\ called' = "async_step_reconfigure"
            /\ flow'.user_input # None
            /\ flow.entry_id # None
            /\ flow.entry_id[1] \in DOMAIN entries)
           => IF SubmittedFormValid
              THEN /\ flow'.result = Some(async_abort("reconfigure_successful"))
                   /\ entries' = [entries EXCEPT ![flow.entry_id[1]] =
                                     Put(flow'.user_input[1],
                                         "CONF_TEMPERATURE_UNIT", TemperatureUnit)]
                   /\ loaded' = Put(loaded, flow.entry_id[1], entries'[flow.entry_id[1]])
              ELSE ShownAgainWithError("reconfigure")]_vars

\* A reconfiguration was accepted: the entry carries the submitted form, here
\* without the weather entity it had, and the integration runs with it.
C25_Witness ==
    /\ called = "async_step_reconfigure"
    /\ flow.handler = "config"
    /\ flow.entry_id = Some(EntryOne)
    /\ flow.result = Some(async_abort("reconfigure_successful"))
    /\ flow.user_input = Submitted(FormFields(SensorOutdoor, TRUE, None))
    /\ EntryOne \in DOMAIN entries
    /\ "CONF_WEATHER_ENTITY" \notin DOMAIN entries[EntryOne]
    /\ entries[EntryOne]["CONF_INCLUDE_COOLING"]
    /\ loaded[EntryOne] = entries[EntryOne]


\* ------------------------------ migrations/_20251107_1_0_3_update_entities_ids.py

\* DOMAIN, the integration's name, as one part of a unique_id. A unique_id
\* is the sequence of the parts its f-string joins with "_".
IntegrationDomain == "heating_cooling_degree_days"

old_sensor_types ==
    <<"SENSOR_TYPE_HDD_DAILY", "SENSOR_TYPE_HDD_WEEKLY", "SENSOR_TYPE_HDD_MONTHLY",
      "SENSOR_TYPE_CDD_DAILY", "SENSOR_TYPE_CDD_WEEKLY", "SENSOR_TYPE_CDD_MONTHLY",
      "SENSOR_TYPE_HDD_ESTIMATED_TODAY", "SENSOR_TYPE_HDD_ESTIMATED_TOMORROW",
      "SENSOR_TYPE_CDD_ESTIMATED_TODAY", "SENSOR_TYPE_CDD_ESTIMATED_TOMORROW">>

\* f"{DOMAIN}_{sensor_type}" and f"{DOMAIN}_{entry_id}_{sensor_type}"
old_format(sensor_type) == <<IntegrationDomain, sensor_type>>

new_format(entry_id, sensor_type) == <<IntegrationDomain, entry_id, sensor_type>>

\* old_unique_id.replace(f"{DOMAIN}_", "", 1): the parts after the first DOMAIN.
sensor_type_of(unique_id) ==
    LET first == CHOOSE i \in 1..(Len(unique_id) + 1) :
                    /\ i <= Len(unique_id) => unique_id[i] = IntegrationDomain
                    /\ \A j \in 1..(i - 1) : unique_id[j] # IntegrationDomain
    IN  SubSeq(unique_id, 1, first - 1) \o SubSeq(unique_id, first + 1, Len(unique_id))

\* ent_reg.async_get_entity_id(domain, platform, unique_id)
async_get_entity_id(reg, domain, platform, unique_id) ==
    LET Matches(entity_id) == /\ reg[entity_id].domain = domain
                              /\ reg[entity_id].platform = platform
                              /\ reg[entity_id].unique_id = unique_id
    IN  IF \E entity_id \in DOMAIN reg : Matches(entity_id)
        THEN Some(CHOOSE entity_id \in DOMAIN reg : Matches(entity_id))
        ELSE None

\* Faulty variant: the owner of the old entity is not looked at.
migrate_one_AnyOwner(reg, entry_id, old_unique_id) == LET old == async_get_entity_id(reg, "sensor", IntegrationDomain, old_unique_id) new_id == <<IntegrationDomain, entry_id>> \o sensor_type_of(old_unique_id) IN IF old = None THEN reg ELSE IF async_get_entity_id(reg, "sensor", IntegrationDomain, new_id) # None THEN Without(reg, old[1]) ELSE [reg EXCEPT ![old[1]].unique_id = new_id]

\* The body of the loop for one old unique_id. async_update_entity raises
\* ValueError only when the new unique_id is taken, which the lookup just
\* before excludes.
migrate_one(reg, entry_id, old_unique_id) ==
    LET old_entity_id == async_get_entity_id(reg, "sensor", IntegrationDomain, old_unique_id)
    IN  IF old_entity_id = None THEN reg
        ELSE IF reg[old_entity_id[1]].config_entry_id # entry_id THEN reg
        ELSE LET sensor_type == sensor_type_of(old_unique_id)
                 new_unique_id == <<IntegrationDomain, entry_id>> \o sensor_type
                 new_entity_id == async_get_entity_id(reg, "sensor", IntegrationDomain,
                                                      new_unique_id)
             IN  IF new_entity_id # None
                 THEN Without(reg, old_entity_id[1])
                 ELSE [reg EXCEPT ![old_entity_id[1]].unique_id = new_unique_id]

\* The loop over old_unique_ids, from the i-th on.
RECURSIVE migrate_from(_, _, _)
migrate_from(reg, entry_id, i) ==
    IF i > Len(old_sensor_types) THEN reg
    ELSE migrate_from(migrate_one(reg, entry_id, old_format(old_sensor_types[i])),
                      entry_id, i + 1)

\* async_migrate_entity_unique_ids(hass, entry)
async_migrate_entity_unique_ids(reg, entry_id) == migrate_from(reg, entry_id, 1)

\* A registry entry.
RegistryEntry(domain, platform, unique_id, config_entry_id) ==
    [domain |-> domain, platform |-> platform, unique_id |-> unique_id,
     config_entry_id |-> config_entry_id]

\* The registries an installation can have before a migration: per entity
\* below, absent or present. Sensors of this integration with old-format ids
\* owned by either entry, sensors that already have the new format (holding
\* the ids a migration wants), and a sensor of another integration whose
\* unique_id looks like the old format.
RegistryCandidates ==
    ("sensor.hdd_daily" :>
        {RegistryEntry("sensor", IntegrationDomain,
                       old_format("SENSOR_TYPE_HDD_DAILY"), id) : id \in {EntryOne, EntryTwo}})
    @@ ("sensor.cdd_estimated_tomorrow" :>
        {RegistryEntry("sensor", IntegrationDomain,
                       old_format("SENSOR_TYPE_CDD_ESTIMATED_TOMORROW"), id) :
            id \in {EntryOne, EntryTwo}})
    @@ ("sensor.hdd_daily_2" :>
        {RegistryEntry("sensor", IntegrationDomain,
                       new_format(EntryOne, "SENSOR_TYPE_HDD_DAILY"), EntryOne)})
    @@ ("sensor.cdd_estimated_tomorrow_2" :>
        {RegistryEntry("sensor", IntegrationDomain,
                       new_format(EntryTwo, "SENSOR_TYPE_CDD_ESTIMATED_TOMORROW"),
                       EntryTwo)})
    @@ ("sensor.other_hdd_weekly" :>
        {RegistryEntry("sensor", "other_platform",
                       old_format("SENSOR_TYPE_HDD_WEEKLY"), "entry_other")})

Registries ==
    UNION {[present -> UNION {RegistryCandidates[e] : e \in present}] :
              present \in SUBSET DOMAIN RegistryCandidates}

InitMigration ==
    /\ readings = <<>>
    /\ base_temp = 18
    /\ forecast_data = <<>>
    /\ start_time = NoonTime
    /\ end_time = MidnightTime
    /\ called = "none"
    /\ arg_readings = <<>>
    /\ raised = FALSE
    /\ ret = 0
    /\ HistoryIdle
    /\ CoordinatorIdle
    /\ entries = (EntryOne :> EntryData(None)) @@ (EntryTwo :> EntryData(None))
    /\ loaded = EmptyMap
    /\ flow = NoFlow
    /\ registry \in {reg \in Registries :
                        \A e \in DOMAIN reg : reg[e] \in RegistryCandidates[e]}
    /\ migrating = None

\* async_setup_entry calls the migration for the entry it sets up.
AsyncMigrateEntityUniqueIds ==
    /\ called' = "async_migrate_entity_unique_ids"
    /\ \E entry_id \in DOMAIN entries :
        /\ migrating' = Some(entry_id)
        /\ registry' = async_migrate_entity_unique_ids(registry, entry_id)
    /\ UNCHANGED <<readings, base_temp, forecast_data, start_time, end_time,
                   arg_readings, raised, ret, history_vars, coordinator_vars,
                   entries, loaded, flow>>

SpecMigration == InitMigration /\ [][AsyncMigrateEntityUniqueIds]_vars


\* ---------------------------------------------------------- migration claims

\* The sensor entities of the integration that carry an old-format
\* unique_id and belong to the entry.
OldFormatOf(reg, entry_id) ==
    {e \in DOMAIN reg :
        /\ reg[e].domain = "sensor"
        /\ reg[e].platform = IntegrationDomain
        /\ \E i \in DOMAIN old_sensor_types :
              reg[e].unique_id = <<IntegrationDomain, old_sensor_types[i]>>
        /\ reg[e].config_entry_id = entry_id}

\* The unique_id is held by a sensor entity of the integration.
Taken(reg, unique_id) ==
    \E e \in DOMAIN reg :
        /\ reg[e].domain = "sensor"
        /\ reg[e].platform = IntegrationDomain
        /\ reg[e].unique_id = unique_id

\* C26: a run of async_migrate_entity_unique_ids for an entry touches only
\* the sensor entities with an old-format unique_id that belong to that
\* entry: each is re-keyed to {DOMAIN}_{entry_id}_{sensor_type} when that id
\* is free and removed when it is taken; afterwards no entity of the entry
\* keeps an old-format id, every other entity is as it was, and a second run
\* changes nothing.
C26_Migration ==
    [][called' = "async_migrate_entity_unique_ids" =>
        LET entry_id == migrating'[1]
            old == OldFormatOf(registry, entry_id)
        IN  /\ DOMAIN registry' \subseteq DOMAIN registry
            /\ \A e \in DOMAIN registry \ old :
                  e \in DOMAIN registry' /\ registry'[e] = registry[e]
            /\ \A e \in old :
                  LET wanted == <<IntegrationDomain, entry_id, registry[e].unique_id[2]>>
                  IN  IF Taken(registry, wanted)
                      THEN e \notin DOMAIN registry'
                      ELSE /\ e \in DOMAIN registry'
                           /\ registry'[e] = [registry[e] EXCEPT !.unique_id = wanted]
            /\ OldFormatOf(registry', entry_id) = {}
            /\ async_migrate_entity_unique_ids(registry', entry_id) = registry']_vars

\* A migration for entry_1 re-keyed its daily HDD sensor and left the
\* old-format sensor of entry_2 alone.
C26_Witness ==
    /\ called = "async_migrate_entity_unique_ids"
    /\ migrating = Some(EntryOne)
    /\ "sensor.hdd_daily" \in DOMAIN registry
    /\ registry["sensor.hdd_daily"].unique_id =
          <<IntegrationDomain, EntryOne, "SENSOR_TYPE_HDD_DAILY">>
    /\ "sensor.cdd_estimated_tomorrow" \in DOMAIN registry
    /\ registry["sensor.cdd_estimated_tomorrow"].config_entry_id = EntryTwo
    /\ registry["sensor.cdd_estimated_tomorrow"].unique_id =
          <<IntegrationDomain, "SENSOR_TYPE_CDD_ESTIMATED_TOMORROW">>


\* ------------------------------------ custom_components/.../domain.py (domain)

\* MIN_INTERVAL_DAYS = 0.0007 of domain.py, as the fraction 7 / 10000.
DOMAIN_MIN_INTERVAL_DAYS_NUM == 7
DOMAIN_MIN_INTERVAL_DAYS_DEN == 10000

\* interval_days < MIN_INTERVAL_DAYS
domain_IntervalTooShort(interval_seconds) ==
    interval_seconds * DOMAIN_MIN_INTERVAL_DAYS_DEN
        < DOMAIN_MIN_INTERVAL_DAYS_NUM * SecondsPerDay

\* Faulty variant: the list is integrated in the order it was given.
domain_sorted_AsGiven(rs) == rs

\* sorted_readings = sorted(readings, key=lambda x: x[0])
domain_sorted(rs) == SortByTimestamp(rs)

\* The for loop of domain.py's calculate_hdd_from_readings from index i on;
\* total is total_hdd times 2 * 86400.
RECURSIVE domain_HddLoop(_, _, _, _)
domain_HddLoop(sorted_readings, base, i, total) ==
    IF i > Len(sorted_readings) - 1 THEN total
    ELSE LET interval_seconds == sorted_readings[i + 1][1] - sorted_readings[i][1]
             current_deficit == Max(0, base - sorted_readings[i][2])
             next_deficit == Max(0, base - sorted_readings[i + 1][2])
         IN  IF domain_IntervalTooShort(interval_seconds)
             THEN domain_HddLoop(sorted_readings, base, i + 1, total)
             ELSE domain_HddLoop(sorted_readings, base, i + 1,
                                 total + (current_deficit + next_deficit)
                                         * interval_seconds)

RECURSIVE domain_CddLoop(_, _, _, _)
domain_CddLoop(sorted_readings, base, i, total) ==
    IF i > Len(sorted_readings) - 1 THEN total
    ELSE LET interval_seconds == sorted_readings[i + 1][1] - sorted_readings[i][1]
             current_excess == Max(0, sorted_readings[i][2] - base)
             next_excess == Max(0, sorted_readings[i + 1][2] - base)
         IN  IF domain_IntervalTooShort(interval_seconds)
             THEN domain_CddLoop(sorted_readings, base, i + 1, total)
             ELSE domain_CddLoop(sorted_readings, base, i + 1,
                                 total + (current_excess + next_excess)
                                         * interval_seconds)

domain_calculate_hdd_from_readings(rs, base) ==
    IF Len(rs) < 2 THEN 0
    ELSE Round1(domain_HddLoop(domain_sorted(rs), base, 1, 0), 2 * SecondsPerDay)

domain_calculate_cdd_from_readings(rs, base) ==
    IF Len(rs) < 2 THEN 0
    ELSE Round1(domain_CddLoop(domain_sorted(rs), base, 1, 0), 2 * SecondsPerDay)

\* Longest list handed to the three integrators side by side.
MaxComparedLen == 3

\* Readings for the comparison: midnight, one minute later (an interval the
\* threshold skips), noon; frost or a warm day.
ComparedReading == {0, 60, 43200} \X {-10, 25}

InitIntegrators ==
    /\ readings \in BoundedSeq(ComparedReading, MaxComparedLen)
    /\ base_temp \in BaseTemps
    /\ forecast_data = <<>>
    /\ start_time = NoonTime
    /\ end_time = MidnightTime
    /\ called = "none"
    /\ arg_readings = <<>>
    /\ raised = FALSE
    /\ ret = 0
    /\ HistoryIdle
    /\ CoordinatorIdle
    /\ PlatformIdle

\* calculate_hdd_from_readings(readings, base_temp) of domain.py.
DomainCalculateHdd ==
    /\ called = "none"
    /\ called' = "domain_calculate_hdd_from_readings"
    /\ arg_readings' = readings
    /\ ret' = domain_calculate_hdd_from_readings(readings, base_temp)
    /\ raised' = FALSE
    /\ UNCHANGED <<readings, inputs>>

\* calculate_cdd_from_readings(readings, base_temp) of domain.py.
DomainCalculateCdd ==
    /\ called = "none"
    /\ called' = "domain_calculate_cdd_from_readings"
    /\ arg_readings' = readings
    /\ ret' = domain_calculate_cdd_from_readings(readings, base_temp)
    /\ raised' = FALSE
    /\ UNCHANGED <<readings, inputs>>

NextIntegrators ==
    \/ CalculateHdd
    \/ CalculateCdd
    \/ HaCalculateHdd
    \/ HaCalculateCdd
    \/ DomainCalculateHdd
    \/ DomainCalculateCdd

SpecIntegrators == InitIntegrators /\ [][NextIntegrators]_vars

\* ---------------------------------------------------------- integrator claims

HddCalls ==
    {"calculate_hdd_from_readings", "ha_calculate_hdd_from_readings",
     "domain_calculate_hdd_from_readings"}

CddCalls ==
    {"calculate_cdd_from_readings", "ha_calculate_cdd_from_readings",
     "domain_calculate_cdd_from_readings"}

\* C27: whichever of the three implementations was called (the pure package,
\* domain.py, the integration's calculations.py), the value it returned is
\* the value each of the three returns for the list as it was passed and the
\* same base temperature, for HDD and for CDD.
C27_IntegratorsAgree ==
    /\ called \in HddCalls =>
          /\ ret = calculate_hdd_from_readings(arg_readings, base_temp)
          /\ ret = domain_calculate_hdd_from_readings(arg_readings, base_temp)
          /\ ret = ha_calculate_hdd_from_readings(arg_readings, base_temp)
    /\ called \in CddCalls =>
          /\ ret = calculate_cdd_from_readings(arg_readings, base_temp)
          /\ ret = domain_calculate_cdd_from_readings(arg_readings, base_temp)
          /\ ret = ha_calculate_cdd_from_readings(arg_readings, base_temp)

\* domain.py integrated an unsorted list of three readings, two of them with
\* the same timestamp and different temperatures, to a positive value.
C27_Witness ==
    /\ called = "domain_calculate_hdd_from_readings"
    /\ Len(arg_readings) = 3
    /\ arg_readings[1][1] > arg_readings[2][1]
    /\ arg_readings[2][1] = arg_readings[3][1]
    /\ arg_readings[2][2] # arg_readings[3][2]
    /\ ret > 0

====
